---------------------------- MODULE Spec2Model ----------------------------
(***************************************************************************)
(* Model of the water benchmarking harness of XeRender:                    *)
(*   WaterTestingSystem (GPU timer, frame recorder, aggregator, statistics *)
(*   helpers) and the part of VulkanBase that drives it (mainLoop,         *)
(*   drawFrame/recordCommandBuffer, the pre/post frame test updates).      *)
(*                                                                         *)
(* Numbers.  The program computes in IEEE doubles.  The model computes in  *)
(* exact rationals: a real is a record [num, den, root] with den > 0 and   *)
(* gcd(num, den) = 1; root = TRUE means the value is sqrt(num/den) (only   *)
(* calculateStdDev produces such values).  Times are in milliseconds.      *)
(***************************************************************************)
EXTENDS Integers, Sequences, FiniteSets

VARIABLES
    wts,    \* the WaterTestingSystem object (its m_ fields)
    hist,   \* history of the timer calls (which call came last, what the current generation saw)
    pct,    \* one call of calculatePercentile: its arguments and its result
    vb,     \* the VulkanBase fields the harness uses
    pc,     \* position of the host thread in mainLoop
    gpu,    \* the device: the queue of submitted, unfinished command buffers
    cam     \* one call of DeterministicCameraPath::interpolate: path, t, result

vars == <<wts, hist, pct, vb, pc, gpu, cam>>

(***************************************************************************)
(* Exact arithmetic                                                        *)
(***************************************************************************)
Abs(x) == IF x < 0 THEN -x ELSE x

RECURSIVE GCD(_, _)
GCD(a, b) == IF b = 0 THEN a ELSE GCD(b, a % b)

Rat(n, d) ==
    LET s == IF d < 0 THEN -1 ELSE 1
        g == GCD(Abs(n), Abs(d))
    IN  [num |-> (s * n) \div g, den |-> (s * d) \div g, root |-> FALSE]

R(n) == [num |-> n, den |-> 1, root |-> FALSE]
Zero == R(0)

RAdd(a, b) ==
    LET g == GCD(a.den, b.den)
    IN  Rat(a.num * (b.den \div g) + b.num * (a.den \div g), a.den * (b.den \div g))
RNeg(a) == [a EXCEPT !.num = -a.num]
RSub(a, b) == RAdd(a, RNeg(b))
RMul(a, b) ==
    LET g1 == GCD(Abs(a.num), b.den)
        g2 == GCD(Abs(b.num), a.den)
    IN  Rat((a.num \div g1) * (b.num \div g2), (a.den \div g2) * (b.den \div g1))
RDiv(a, b) == RMul(a, Rat(b.den, b.num))
RAbs(a) == [a EXCEPT !.num = Abs(a.num)]
\* a < b, by cross-multiplication of the reduced fractions
RLt(a, b) ==
    LET g == GCD(a.den, b.den)
    IN  a.num * (b.den \div g) < b.num * (a.den \div g)
RLe(a, b) == ~RLt(b, a)
\* sqrt of a non-negative rational, kept symbolic; sqrt(0) is 0
RSqrt(a) == IF a.num = 0 THEN Zero ELSE [a EXCEPT !.root = TRUE]
\* the square of a real of either kind
RSquare(a) == IF a.root THEN [a EXCEPT !.root = FALSE] ELSE RMul(a, a)
\* static_cast<size_t>(x) of a double in range: truncation toward zero
Trunc(a) == IF a.num >= 0 THEN a.num \div a.den ELSE -((-a.num) \div a.den)

\* the sum of a sequence of reals (std::accumulate), halving the sequence
RECURSIVE RSum(_)
RSum(s) ==
    IF s = <<>> THEN Zero
    ELSE IF Len(s) = 1 THEN s[1]
    ELSE LET h == Len(s) \div 2
         IN  RAdd(RSum(SubSeq(s, 1, h)), RSum(SubSeq(s, h + 1, Len(s))))

(***************************************************************************)
(* std::sort on a vector of doubles (ascending)                            *)
(***************************************************************************)
\* The place of element i in the sorted vector: after every smaller element and
\* after the equal elements that precede it.
SortedPlace(s, i) ==
    Cardinality({j \in 1..Len(s) : RLt(s[j], s[i]) \/ (j < i /\ s[j] = s[i])}) + 1
SortAscending_Unsorted(s) == s
SortAscending(s) ==
    [k \in 1..Len(s) |-> s[CHOOSE i \in 1..Len(s) : SortedPlace(s, i) = k]]

(***************************************************************************)
(* WaterTestingSystem::calculatePercentile                                 *)
(***************************************************************************)
\* the double (percentile / 100.0) * (values.size() - 1), then the cast to size_t
PercentileIndex_Rounded(values, percentile) ==
    LET x == RMul(RDiv(percentile, R(100)), R(Len(values) - 1))
    IN  Trunc(RAdd(x, Rat(1, 2)))
PercentileIndex(values, percentile) ==
    Trunc(RMul(RDiv(percentile, R(100)), R(Len(values) - 1)))

\* What a read past the end of the vector's storage (or with an index that the
\* cast of a negative double produced) can give: undefined behaviour, so any
\* of: a fault, or whatever double lies there.
StrayDoubles == {R(-7), R(2)}
OutOfBoundsRead ==
    {[crash |-> TRUE, value |-> Zero]} \cup {[crash |-> FALSE, value |-> v] : v \in StrayDoubles}

\* The set of outcomes of calculatePercentile(values, percentile): the code sorts
\* its copy, computes the index and reads values[index] with no bounds check.
CalculatePercentile(values, percentile) ==
    IF values = <<>> THEN {[crash |-> FALSE, value |-> Zero]}
    ELSE LET sorted == SortAscending(values)
             index == PercentileIndex(values, percentile)
         IN  IF index \in 0..(Len(values) - 1)
             THEN {[crash |-> FALSE, value |-> sorted[index + 1]]}
             ELSE OutOfBoundsRead

Only(S) == CHOOSE x \in S : TRUE

IsPositive(x) == RLt(Zero, x)
\* fpsValues: 1000.0 / ft for every clean frame time ft > 0, in order
FpsValues(cleanFrameTimes) ==
    LET positive == SelectSeq(cleanFrameTimes, IsPositive)
    IN  [i \in 1..Len(positive) |-> RDiv(R(1000), positive[i])]

(***************************************************************************)
(* Statistics helpers of WaterTestingSystem                                *)
(***************************************************************************)
CalculateMean(values) ==
    IF values = <<>> THEN Zero ELSE RDiv(RSum(values), R(Len(values)))

CalculateMedian(values) ==
    IF values = <<>> THEN Zero
    ELSE LET sorted == SortAscending(values)
             n == Len(values)
         IN  IF n % 2 = 0
             THEN RDiv(RAdd(sorted[n \div 2], sorted[n \div 2 + 1]), R(2))
             ELSE sorted[n \div 2 + 1]

SumSquaredDiff(values, mean) ==
    RSum([i \in 1..Len(values) |-> RSquare(RSub(values[i], mean))])

CalculateStdDev(values, mean) ==
    IF Len(values) < 2 THEN Zero
    ELSE RSqrt(RDiv(SumSquaredDiff(values, mean), R(Len(values) - 1)))

\* the rejection rule with >= in place of >
IsOutlier_Inclusive(value, mean, stddev, threshold) ==
    RLe(RMul(RSquare(threshold), RSquare(stddev)), RSquare(RSub(value, mean)))
\* the rejection rule with the band one standard deviation narrower
IsOutlier_Tight(value, mean, stddev, threshold) ==
    RLt(RMul(RSquare(RSub(threshold, R(1))), RSquare(stddev)), RSquare(RSub(value, mean)))
\* the rejection rule with the band one standard deviation wider
IsOutlier_Loose(value, mean, stddev, threshold) ==
    RLt(RMul(RSquare(RAdd(threshold, R(1))), RSquare(stddev)), RSquare(RSub(value, mean)))

\* std::abs(value - mean) > threshold * stddev; both sides are >= 0, so the
\* comparison is the comparison of their squares
IsOutlier(value, mean, stddev, threshold) ==
    RLt(RMul(RSquare(threshold), RSquare(stddev)), RSquare(RSub(value, mean)))

\* *std::min_element, *std::max_element of a non-empty vector
MinOf(s) == s[CHOOSE i \in 1..Len(s) : \A j \in 1..Len(s) : RLe(s[i], s[j])]
MaxOf(s) == s[CHOOSE i \in 1..Len(s) : \A j \in 1..Len(s) : RLe(s[j], s[i])]

(***************************************************************************)
(* Configurations, frame records, rollups                                  *)
(***************************************************************************)
PERF_TOTAL_FRAMES == 120
PERF_WARMUP_FRAMES == 5
PERF_REPEAT_COUNT == 3
OUTLIER_THRESHOLD == 5

\* WaterTestConfig{}: the member initializers of the struct
\* A std::string is a sequence of pieces; the pieces "," and "\"" are the
\* comma and the double-quote character, any other piece is a run of
\* ordinary characters.
DefaultConfig ==
    [name |-> <<>>, depth |-> "Shallow", totalFrames |-> PERF_TOTAL_FRAMES,
     warmupFrames |-> PERF_WARMUP_FRAMES, repeatCount |-> PERF_REPEAT_COUNT]

\* AggregatedRunMetrics agg{}; agg.configName = config.name
ZeroAgg(configName) ==
    [configName |-> configName, validFrameCount |-> 0, outlierCount |-> 0,
     meanFrameTime |-> Zero, medianFrameTime |-> Zero, stddevFrameTime |-> Zero,
     minFrameTime |-> Zero, maxFrameTime |-> Zero,
     percentile1Low |-> Zero, percentile99 |-> Zero,
     meanFPS |-> Zero, medianFPS |-> Zero, fps1Low |-> Zero,
     meanGpuTime |-> Zero, medianGpuTime |-> Zero, stddevGpuTime |-> Zero]

\* TestRunResult{}
EmptyResult ==
    [config |-> DefaultConfig, runIndex |-> 0, endTime |-> 0, frameMetrics |-> <<>>,
     aggregated |-> ZeroAgg(<<>>)]

(***************************************************************************)
(* WaterTestingSystem::aggregateMetrics                                    *)
(***************************************************************************)
NotWarmup_All(m) == TRUE
NotWarmup(m) == ~m.isWarmupFrame

\* Step 1: the frames that are not warm-up frames, in order
NonWarmupFrames(rawMetrics) == SelectSeq(rawMetrics, NotWarmup)

SeqField(s, f) == [i \in 1..Len(s) |-> s[i][f]]

\* Step 3: the indices (into the non-warm-up lists) that isOutlier rejects
OutlierIndices(frameTimes) ==
    LET mean == CalculateMean(frameTimes)
        stddev == CalculateStdDev(frameTimes, mean)
    IN  {i \in 1..Len(frameTimes) : IsOutlier(frameTimes[i], mean, stddev, R(OUTLIER_THRESHOLD))}

\* the elements of s whose index is not in drop, in order
DropIndices(s, drop) ==
    LET keep == SelectSeq([i \in 1..Len(s) |-> i], LAMBDA i : i \notin drop)
    IN  [k \in 1..Len(keep) |-> s[keep[k]]]

AggregateMetrics(rawMetrics, config) ==
    LET kept == NonWarmupFrames(rawMetrics)
        frameTimes == SeqField(kept, "frameTimeMs")
        gpuTimes == SeqField(kept, "gpuTimeMs")
        agg == ZeroAgg(config.name)
    IN  IF frameTimes = <<>> THEN agg
        ELSE LET outliers == OutlierIndices(frameTimes)
                 cleanFrameTimes == DropIndices(frameTimes, outliers)
                 cleanGpuTimes == DropIndices(gpuTimes, outliers)
                 counted == [agg EXCEPT !.validFrameCount = Len(cleanFrameTimes),
                                        !.outlierCount = Cardinality(outliers)]
             IN  IF cleanFrameTimes = <<>> THEN counted
                 ELSE LET meanFrameTime == CalculateMean(cleanFrameTimes)
                          fpsValues == FpsValues(cleanFrameTimes)
                          meanGpuTime == CalculateMean(cleanGpuTimes)
                      IN  [counted EXCEPT
                              !.meanFrameTime = meanFrameTime,
                              !.medianFrameTime = CalculateMedian(cleanFrameTimes),
                              !.stddevFrameTime = CalculateStdDev(cleanFrameTimes, meanFrameTime),
                              !.minFrameTime = MinOf(cleanFrameTimes),
                              !.maxFrameTime = MaxOf(cleanFrameTimes),
                              !.percentile1Low = Only(CalculatePercentile(cleanFrameTimes, R(99))).value,
                              !.percentile99 = Only(CalculatePercentile(cleanFrameTimes, R(99))).value,
                              !.meanFPS = CalculateMean(fpsValues),
                              !.medianFPS = CalculateMedian(fpsValues),
                              !.fps1Low = Only(CalculatePercentile(fpsValues, R(1))).value,
                              !.meanGpuTime = meanGpuTime,
                              !.medianGpuTime = CalculateMedian(cleanGpuTimes),
                              !.stddevGpuTime = CalculateStdDev(cleanGpuTimes, meanGpuTime)]

(***************************************************************************)
(* The WaterTestingSystem object                                           *)
(*   m_timestampQueryPool is TRUE for a valid handle, FALSE for            *)
(*   VK_NULL_HANDLE; m_cameraPath is the installed path's name ("" while   *)
(*   it has no keyframes).  A command buffer argument cmd is TRUE for a    *)
(*   valid handle.                                                         *)
(***************************************************************************)
\* The object after make_unique<WaterTestingSystem>() and initialize():
\* createTimestampQueryPool either got a pool or left VK_NULL_HANDLE.
NewWts(poolCreated, timestampPeriod) ==
    [m_timestampQueryPool |-> poolCreated,
     m_timestampPeriod |-> timestampPeriod,
     m_timestampsWritten |-> FALSE,
     m_queryPoolNeedsReset |-> TRUE,
     m_startTimestampWritten |-> FALSE,
     m_lastGpuTimeMs |-> Zero,
     m_isRunning |-> FALSE,
     m_currentFrameIndex |-> 0,
     m_currentConfig |-> DefaultConfig,
     m_currentResult |-> EmptyResult,
     m_cameraPath |-> ""]

\* whether the call records its command into cmd
ResetIssued(w, cmd) == w.m_timestampQueryPool /\ cmd
ResetTimestampQueries_NoPoolCheck(w, cmd) ==
    IF ~cmd THEN w
    ELSE [w EXCEPT !.m_timestampsWritten = FALSE,
                   !.m_startTimestampWritten = FALSE,
                   !.m_queryPoolNeedsReset = FALSE]
ResetTimestampQueries(w, cmd) ==
    IF ~ResetIssued(w, cmd) THEN w
    ELSE [w EXCEPT !.m_timestampsWritten = FALSE,
                   !.m_startTimestampWritten = FALSE,
                   !.m_queryPoolNeedsReset = FALSE]

StartIssued(w, cmd) == w.m_timestampQueryPool /\ cmd /\ ~w.m_queryPoolNeedsReset
WriteTimestampStart(w, cmd) ==
    IF ~(w.m_timestampQueryPool /\ cmd) THEN w
    ELSE IF w.m_queryPoolNeedsReset THEN [w EXCEPT !.m_startTimestampWritten = FALSE]
    ELSE [w EXCEPT !.m_startTimestampWritten = TRUE]

EndIssued(w, cmd) == w.m_timestampQueryPool /\ cmd /\ w.m_startTimestampWritten
WriteTimestampEnd_NoStartCheck(w, cmd) ==
    IF ~(w.m_timestampQueryPool /\ cmd) THEN w
    ELSE [w EXCEPT !.m_timestampsWritten = TRUE]
WriteTimestampEnd(w, cmd) ==
    IF ~EndIssued(w, cmd) THEN w
    ELSE [w EXCEPT !.m_timestampsWritten = TRUE]

\* whether readGpuTimestamps reaches vkGetQueryPoolResults
ReadQueriesDevice(w) == w.m_timestampQueryPool /\ w.m_timestampsWritten

NS_PER_MS == 1000000
\* static_cast<double>(timestampDiff) * m_timestampPeriod / 1000000.0
TicksToMs(w, timestamps) ==
    RDiv(RMul(R(timestamps[2] - timestamps[1]), w.m_timestampPeriod), R(NS_PER_MS))

\* result is what vkGetQueryPoolResults returned, timestamps = <<start, end>> what it stored
ReadGpuTimestamps_AcceptsEqual(w, result, timestamps) ==
    IF ~w.m_timestampQueryPool THEN [w EXCEPT !.m_lastGpuTimeMs = Zero]
    ELSE IF ~w.m_timestampsWritten THEN w
    ELSE [w EXCEPT !.m_lastGpuTimeMs =
                        IF result = "VK_SUCCESS" /\ timestamps[2] >= timestamps[1]
                        THEN TicksToMs(w, timestamps) ELSE @,
                   !.m_timestampsWritten = FALSE]
ReadGpuTimestamps(w, result, timestamps) ==
    IF ~w.m_timestampQueryPool THEN [w EXCEPT !.m_lastGpuTimeMs = Zero]
    ELSE IF ~w.m_timestampsWritten THEN w
    ELSE [w EXCEPT !.m_lastGpuTimeMs =
                        IF result = "VK_SUCCESS" /\ timestamps[2] > timestamps[1]
                        THEN TicksToMs(w, timestamps) ELSE @,
                   !.m_timestampsWritten = FALSE]

StartTestRun_TimerKept(w, config, runIndex) ==
    [w EXCEPT !.m_isRunning = TRUE,
              !.m_currentFrameIndex = 0,
              !.m_currentConfig = config,
              !.m_currentResult = [EmptyResult EXCEPT !.config = config, !.runIndex = runIndex],
              !.m_cameraPath = IF @ = "" THEN "UnderwaterSweep" ELSE @]
StartTestRun(w, config, runIndex) ==
    [w EXCEPT !.m_isRunning = TRUE,
              !.m_currentFrameIndex = 0,
              !.m_currentConfig = config,
              !.m_queryPoolNeedsReset = TRUE,
              !.m_timestampsWritten = FALSE,
              !.m_startTimestampWritten = FALSE,
              !.m_lastGpuTimeMs = Zero,
              !.m_currentResult = [EmptyResult EXCEPT !.config = config, !.runIndex = runIndex],
              !.m_cameraPath = IF @ = "" THEN "UnderwaterSweep" ELSE @]

\* m_currentFrameIndex < static_cast<uint32_t>(warmupFrames): a negative
\* warmupFrames converts to a value above every frame index
IsWarmupIndex_OffByOne(index, warmupFrames) == warmupFrames < 0 \/ index <= warmupFrames
IsWarmupIndex(index, warmupFrames) == warmupFrames < 0 \/ index < warmupFrames

\* the frameIndex argument is not used by the code
\* recordFrame without the m_isRunning check
RecordFrame_AlsoWhenIdle(w, frameIndex, frameTimeMs, camPose) ==
    LET cpu == RSub(frameTimeMs, w.m_lastGpuTimeMs)
        metrics == [frameIndex |-> w.m_currentFrameIndex,
                    frameTimeMs |-> frameTimeMs,
                    gpuTimeMs |-> w.m_lastGpuTimeMs,
                    cpuTimeMs |-> IF RLt(cpu, Zero) THEN Zero ELSE cpu,
                    camera |-> camPose,
                    isWarmupFrame |-> IsWarmupIndex(w.m_currentFrameIndex,
                                                    w.m_currentConfig.warmupFrames),
                    isOutlier |-> FALSE]
    IN  [w EXCEPT !.m_currentResult.frameMetrics = Append(@, metrics),
                  !.m_currentFrameIndex = @ + 1]
RecordFrame_IndexFromArgument(w, frameIndex, frameTimeMs, camPose) ==
    IF ~w.m_isRunning THEN w
    ELSE LET cpu == RSub(frameTimeMs, w.m_lastGpuTimeMs)
             metrics == [frameIndex |-> frameIndex,
                         frameTimeMs |-> frameTimeMs,
                         gpuTimeMs |-> w.m_lastGpuTimeMs,
                         cpuTimeMs |-> IF RLt(cpu, Zero) THEN Zero ELSE cpu,
                         camera |-> camPose,
                         isWarmupFrame |-> IsWarmupIndex(frameIndex,
                                                         w.m_currentConfig.warmupFrames),
                         isOutlier |-> FALSE]
         IN  [w EXCEPT !.m_currentResult.frameMetrics = Append(@, metrics),
                       !.m_currentFrameIndex = @ + 1]
RecordFrame(w, frameIndex, frameTimeMs, camPose) ==
    IF ~w.m_isRunning THEN w
    ELSE LET cpu == RSub(frameTimeMs, w.m_lastGpuTimeMs)
             metrics == [frameIndex |-> w.m_currentFrameIndex,
                         frameTimeMs |-> frameTimeMs,
                         gpuTimeMs |-> w.m_lastGpuTimeMs,
                         cpuTimeMs |-> IF RLt(cpu, Zero) THEN Zero ELSE cpu,
                         camera |-> camPose,
                         isWarmupFrame |-> IsWarmupIndex(w.m_currentFrameIndex,
                                                         w.m_currentConfig.warmupFrames),
                         isOutlier |-> FALSE]
         IN  [w EXCEPT !.m_currentResult.frameMetrics = Append(@, metrics),
                       !.m_currentFrameIndex = @ + 1]

\* the returned TestRunResult is the new m_currentResult; ClockNow is what
\* std::chrono::system_clock::now() reads, in seconds
ClockNow == 7
EndTestRun(w) ==
    [w EXCEPT !.m_isRunning = FALSE,
              !.m_currentResult.endTime = ClockNow,
              !.m_currentResult.aggregated =
                  AggregateMetrics(w.m_currentResult.frameMetrics, w.m_currentConfig)]

(***************************************************************************)
(* DeterministicCameraPath                                                 *)
(*   A CameraKeyframe is [position, yaw, pitch, timestamp] with position   *)
(*   the three coordinates; the floats are kept as exact fractions.        *)
(***************************************************************************)
Keyframe(x, y, z, yaw, pitch, timestamp) ==
    [position |-> <<x, y, z>>, yaw |-> yaw, pitch |-> pitch, timestamp |-> timestamp]
\* return {}
EmptyKeyframe == Keyframe(Zero, Zero, Zero, Zero, Zero, Zero)
\* glm::clamp(x, minVal, maxVal) == min(max(x, minVal), maxVal)
Clamp(x, minVal, maxVal) ==
    IF RLt(x, minVal) THEN minVal ELSE IF RLt(maxVal, x) THEN maxVal ELSE x
\* glm::mix(x, y, a) == x * (1 - a) + y * a
Mix(x, y, a) == RAdd(RMul(x, RSub(R(1), a)), RMul(y, a))
\* k0.yaw + (k1.yaw - k0.yaw) * smoothT
Lerp(a, b, smoothT) == RAdd(a, RMul(RSub(b, a), smoothT))
\* the search loop: the first i (counted from 1) below the last index with
\* keyframes[i + 1].timestamp >= t, or the last index when there is none
SegmentIndex(keyframes, t) ==
    IF \E i \in 1..(Len(keyframes) - 1) : RLe(t, keyframes[i + 1].timestamp)
    THEN CHOOSE i \in 1..(Len(keyframes) - 1) :
             /\ RLe(t, keyframes[i + 1].timestamp)
             /\ \A j \in 1..(i - 1) : ~RLe(t, keyframes[j + 1].timestamp)
    ELSE Len(keyframes)
SegmentT(k0, k1, t) ==
    IF RLt(k0.timestamp, k1.timestamp)
    THEN RDiv(RSub(t, k0.timestamp), RSub(k1.timestamp, k0.timestamp))
    ELSE Zero
SmoothT(segmentT) == RMul(RMul(segmentT, segmentT), RSub(R(3), RMul(R(2), segmentT)))
Blend(k0, k1, smoothT, t) ==
    [position |-> [c \in 1..3 |-> Mix(k0.position[c], k1.position[c], smoothT)],
     yaw |-> Lerp(k0.yaw, k1.yaw, smoothT),
     pitch |-> Lerp(k0.pitch, k1.pitch, smoothT),
     timestamp |-> t]
InterpolateFrom(keyframes, i, t) ==
    Blend(keyframes[i],
          keyframes[IF i + 1 <= Len(keyframes) THEN i + 1 ELSE Len(keyframes)],
          SmoothT(SegmentT(keyframes[i],
                           keyframes[IF i + 1 <= Len(keyframes) THEN i + 1 ELSE Len(keyframes)],
                           t)),
          t)
Interpolate(keyframes, t) ==
    IF keyframes = <<>> THEN EmptyKeyframe
    ELSE IF Len(keyframes) = 1 THEN keyframes[1]
    ELSE InterpolateFrom(keyframes, SegmentIndex(keyframes, Clamp(t, Zero, R(1))),
                         Clamp(t, Zero, R(1)))

\* createDepthTransitionPath
DepthTransitionPath ==
    <<Keyframe(Zero, R(-5), R(55), Zero, R(5), Zero),
      Keyframe(Rat(3889, 100), R(-9), Rat(3889, 100), R(45), R(3), Rat(1, 8)),
      Keyframe(R(55), R(-13), Zero, R(90), R(1), Rat(2, 8)),
      Keyframe(Rat(3889, 100), R(-17), Rat(-3889, 100), R(135), R(-1), Rat(3, 8)),
      Keyframe(Zero, R(-21), R(-55), R(180), R(-3), Rat(4, 8)),
      Keyframe(Rat(-3889, 100), R(-25), Rat(-3889, 100), R(-135), R(-3), Rat(5, 8)),
      Keyframe(R(-55), R(-29), Zero, R(-90), R(-1), Rat(6, 8)),
      Keyframe(Rat(-3889, 100), R(-53), Rat(3889, 100), R(-45), R(1), Rat(7, 8)),
      Keyframe(Zero, R(-55), R(55), Zero, R(3), R(1))>>

(***************************************************************************)
(* Data export: operator<< on an ofstream                                  *)
(*   A line is a string as above, without its "\n"; a file is              *)
(*   [exists, lines].                                                      *)
(***************************************************************************)
Digits == <<"0", "1", "2", "3", "4", "5", "6", "7", "8", "9">>
RECURSIVE FormatNat(_)
FormatNat(n) ==
    IF n < 10 THEN <<Digits[n + 1]>>
    ELSE FormatNat(n \div 10) \o <<Digits[(n % 10) + 1]>>
\* operator<< of an int
FormatInt(n) == IF n < 0 THEN <<"-">> \o FormatNat(-n) ELSE FormatNat(n)

Pow10(d) == IF d = 0 THEN 1 ELSE IF d = 1 THEN 10 ELSE IF d = 2 THEN 100
            ELSE IF d = 3 THEN 1000 ELSE 10000
\* n / d for n >= 0, d > 0, rounded to the nearest integer, ties to even
RoundDiv(n, d) ==
    LET q == n \div d
        r2 == 2 * (n % d)
    IN  IF r2 < d THEN q ELSE IF r2 > d THEN q + 1 ELSE IF q % 2 = 0 THEN q ELSE q + 1
\* the integer nearest to sqrt(n / d), searched between lo and hi:
\* the k with (2k-1)^2 * d <= 4n < (2k+1)^2 * d (the test divides, to stay
\* within the integers at hand)
RECURSIVE RoundSqrt(_, _, _, _)
RoundSqrt(n, d, lo, hi) ==
    IF lo >= hi THEN lo
    ELSE LET mid == (lo + hi) \div 2
         IN  IF (4 * n) \div ((2 * mid + 1) * d) < 2 * mid + 1
             THEN RoundSqrt(n, d, lo, mid)
             ELSE RoundSqrt(n, d, mid + 1, hi)
MaxPrinted == 1000
\* |x| * 10^digits as the nearest integer
Scaled(x, digits) ==
    IF x.root
    THEN RoundSqrt(x.num * Pow10(digits) * Pow10(digits), x.den, 0, MaxPrinted * Pow10(digits))
    ELSE RoundDiv(Abs(x.num) * Pow10(digits), x.den)
\* the digits of n, at least width of them
RECURSIVE Padded(_, _)
Padded(n, width) ==
    IF width <= 1 THEN FormatNat(n)
    ELSE Padded(n \div 10, width - 1) \o <<Digits[(n % 10) + 1]>>
\* operator<< of a double under std::fixed << std::setprecision(digits)
FormatFixed(x, digits) ==
    (IF x.num < 0 /\ Scaled(x, digits) > 0 THEN <<"-">> ELSE <<>>)
    \o FormatNat(Scaled(x, digits) \div Pow10(digits))
    \o <<".">> \o Padded(Scaled(x, digits) % Pow10(digits), digits)

\* TestReportGenerator::formatTimestamp: "%Y-%m-%d %H:%M:%S" of the clock value
FormatTimestamp(tp) == <<"2026-01-01 00:00:", Digits[((tp \div 10) % 6) + 1], Digits[(tp % 10) + 1]>>

RECURSIVE JoinFields(_)
\* field << "," << field << ... : the fields of a row with commas between them
JoinFields(fields) ==
    IF fields = <<>> THEN <<>>
    ELSE IF Len(fields) = 1 THEN fields[1]
    ELSE fields[1] \o <<",">> \o JoinFields(Tail(fields))

\* TestReportGenerator::escapeCSV
EscapeCSV(str) ==
    IF \E i \in 1..Len(str) : str[i] = "," \/ str[i] = "\""
    THEN <<"\"">> \o
         [k \in 1..(Len(str) + Cardinality({i \in 1..Len(str) : str[i] = "\""})) |->
             LET i == CHOOSE j \in 1..Len(str) :
                          \/ j + Cardinality({h \in 1..(j - 1) : str[h] = "\""}) = k
                          \/ (str[j] = "\"" /\ j + Cardinality({h \in 1..(j - 1) : str[h] = "\""}) + 1 = k)
             IN  str[i]]
         \o <<"\"">>
    ELSE str

\* a line of column titles
TitleLine(titles) == JoinFields([i \in 1..Len(titles) |-> <<titles[i]>>])
\* std::ofstream: a file that does not exist, and what opening one gives
NoFile == [exists |-> FALSE, lines |-> <<>>]
OpenTruncate(file) == [exists |-> TRUE, lines |-> <<>>]
OpenAppend_Truncating(file) == [exists |-> TRUE, lines |-> <<>>]
OpenAppend(file) == [exists |-> TRUE, lines |-> file.lines]
Write(file, lines) == [file EXCEPT !.lines = @ \o lines]

\* the fields of WaterTestConfig the model does not carry keep their defaults
DepthValue(depth) == IF depth = "Deep" THEN 1 ELSE 0
ConfigColumns(c) ==
    <<FormatInt(1), FormatInt(DepthValue(c.depth)), FormatInt(0), FormatInt(1),
      FormatInt(8), FormatInt(64)>>

AppendTitles ==
    <<"Timestamp", "Config", "Run", "ValidFrames", "Outliers", "MeanFPS", "MedianFPS",
      "1%LowFPS", "MeanFrameTime_ms", "MedianFrameTime_ms", "StdDevFrameTime_ms",
      "MinFrameTime_ms", "MaxFrameTime_ms", "99thPercentile_ms",
      "MeanGpuTime_ms", "MedianGpuTime_ms", "StdDevGpuTime_ms",
      "Turbidity", "Depth", "LightMotion", "RenderMode", "SampleCount", "CausticRays">>
\* the statistics columns shared by appendRunToCSV and exportToCSV
StatColumns(a) ==
    <<FormatInt(a.validFrameCount), FormatInt(a.outlierCount),
      FormatFixed(a.meanFPS, 2), FormatFixed(a.medianFPS, 2), FormatFixed(a.fps1Low, 2),
      FormatFixed(a.meanFrameTime, 2), FormatFixed(a.medianFrameTime, 2),
      FormatFixed(a.stddevFrameTime, 2), FormatFixed(a.minFrameTime, 2),
      FormatFixed(a.maxFrameTime, 2), FormatFixed(a.percentile99, 2),
      FormatFixed(a.meanGpuTime, 2), FormatFixed(a.medianGpuTime, 2),
      FormatFixed(a.stddevGpuTime, 2)>>
AppendRow(run) ==
    JoinFields(<<FormatTimestamp(run.endTime), run.config.name, FormatInt(run.runIndex)>>
               \o StatColumns(run.aggregated) \o ConfigColumns(run.config))

\* Every exporter gives the file after the call and what it wrote to std::cerr.
AppendRunToCSV(file, run, canOpen) ==
    IF ~canOpen THEN [file |-> file, cerr |-> <<"Failed to open file for append">>]
    ELSE [file |-> Write(OpenAppend(file),
                         (IF ~file.exists THEN <<TitleLine(AppendTitles)>> ELSE <<>>)
                         \o <<AppendRow(run)>>),
          cerr |-> <<>>]

SummaryTitles ==
    <<"Config", "ValidFrames", "MeanFPS", "MedianFPS", "1%LowFPS", "MeanFrameTime_ms",
      "StdDevFrameTime_ms">>
SummaryRow(m) ==
    JoinFields(<<m.configName, FormatInt(m.validFrameCount),
                 FormatFixed(m.meanFPS, 2), FormatFixed(m.medianFPS, 2),
                 FormatFixed(m.fps1Low, 2), FormatFixed(m.meanFrameTime, 2),
                 FormatFixed(m.stddevFrameTime, 2)>>)
ExportSummaryToCSV(file, metrics, canOpen) ==
    IF ~canOpen THEN [file |-> file, cerr |-> <<>>]
    ELSE [file |-> Write(OpenTruncate(file),
                         <<TitleLine(SummaryTitles)>>
                         \o [i \in 1..Len(metrics) |-> SummaryRow(metrics[i])]),
          cerr |-> <<>>]

FrameTitles ==
    <<"FrameIndex", "FrameTime_ms", "GpuTime_ms", "CpuTime_ms", "Timestamp_ns",
      "CameraX", "CameraY", "CameraZ", "CameraYaw", "CameraPitch", "IsWarmup", "IsOutlier">>
\* a coordinate of the recorded pose, named by the path point it came from
PoseColumn(camera, axis) == <<axis, "@">> \o <<camera.path, "@">> \o FormatFixed(camera.t, 4)
FrameRow(m) ==
    JoinFields(<<FormatInt(m.frameIndex), FormatFixed(m.frameTimeMs, 4),
                 FormatFixed(m.gpuTimeMs, 4), FormatFixed(m.cpuTimeMs, 4),
                 FormatInt(ClockNow),
                 PoseColumn(m.camera, "x"), PoseColumn(m.camera, "y"),
                 PoseColumn(m.camera, "z"), PoseColumn(m.camera, "yaw"),
                 PoseColumn(m.camera, "pitch"),
                 FormatInt(IF m.isWarmupFrame THEN 1 ELSE 0),
                 FormatInt(IF m.isOutlier THEN 1 ELSE 0)>>)
ExportRunToCSV(file, run, canOpen) ==
    IF ~canOpen THEN [file |-> file, cerr |-> <<>>]
    ELSE [file |-> Write(OpenTruncate(file),
                         <<TitleLine(FrameTitles)>>
                         \o [i \in 1..Len(run.frameMetrics) |-> FrameRow(run.frameMetrics[i])]),
          cerr |-> <<>>]

SuiteTitles ==
    <<"Config", "Run", "ValidFrames", "Outliers", "MeanFPS", "MedianFPS", "1%LowFPS",
      "MeanFrameTime_ms", "MedianFrameTime_ms", "StdDevFrameTime_ms",
      "MinFrameTime_ms", "MaxFrameTime_ms", "99thPercentile_ms",
      "MeanGpuTime_ms", "MedianGpuTime_ms", "StdDevGpuTime_ms">>
SuiteRow(run) ==
    JoinFields(<<run.aggregated.configName, FormatInt(run.runIndex)>>
               \o StatColumns(run.aggregated))
\* results is a TestSuiteResult: [suiteName, timestamp, runs]
ExportToCSV(file, results, canOpen) ==
    IF ~canOpen THEN [file |-> file, cerr |-> <<"Failed to open file for export">>]
    ELSE [file |-> Write(OpenTruncate(file),
                         <<JoinFields(<<<<"Suite">>, results.suiteName>>),
                           JoinFields(<<<<"Timestamp">>, FormatTimestamp(results.timestamp)>>),
                           <<>>,
                           TitleLine(SuiteTitles)>>
                         \o [i \in 1..Len(results.runs) |-> SuiteRow(results.runs[i])]),
          cerr |-> <<>>]

\* reading a line back: its fields are separated by the commas outside quotes
CsvFieldCount(line) ==
    1 + Cardinality({i \in 1..Len(line) :
                        /\ line[i] = ","
                        /\ Cardinality({j \in 1..(i - 1) : line[j] = "\""}) % 2 = 0})

(***************************************************************************)
(* SpecTimer: the public calls of WaterTestingSystem in any order          *)
(*   hist remembers the last call and what the current frame generation    *)
(*   (since the last readGpuTimestamps or startTestRun) has seen.          *)
(***************************************************************************)
MaxTick == 2
MaxTimerFrames == 1
Ticks == 0..MaxTick
\* VkPhysicalDeviceLimits::timestampPeriod, nanoseconds per tick
TimestampPeriods == {R(NS_PER_MS), Rat(NS_PER_MS, 2)}
QueryResults == {"VK_SUCCESS", "VK_NOT_READY", "VK_ERROR_DEVICE_LOST"}
TimerConfigs ==
    {[name |-> <<"A">>, depth |-> "Shallow", totalFrames |-> 2, warmupFrames |-> 1, repeatCount |-> 1]}
TimerFrameTimes == {R(1)}
\* a camera pose: the point of the named path at parameter t
NoPose == [path |-> "", t |-> Zero]

\* what vkGetQueryPoolResults can answer when readGpuTimestamps calls it
DeviceAnswers(w) ==
    IF ReadQueriesDevice(w)
    THEN [result : QueryResults, ticks : Ticks \X Ticks]
    ELSE {[result |-> "none", ticks |-> <<0, 0>>]}

NoSubmission == [reset |-> FALSE, start |-> FALSE, end |-> FALSE, age |-> "thisFrame"]
InitHist ==
    [call |-> "none", genReset |-> FALSE, genStartCalled |-> FALSE, genStartOk |-> FALSE,
     genEndOk |-> FALSE, queried |-> FALSE, result |-> "none", ticks |-> <<0, 0>>,
     prevGpu |-> Zero, prevRunning |-> FALSE, poolCreated |-> FALSE,
     submitted |-> FALSE, sub |-> NoSubmission, sessions |-> 0,
     suite |-> <<>>, cancelled |-> FALSE, cleared |-> FALSE, click |-> "none",
     recorded |-> 0, posed |-> FALSE, extraPressed |-> FALSE,
     appended |-> <<>>, opened |-> TRUE, exports |-> 0, frameArg |-> 0]
IdlePct == [values |-> <<>>, percentile |-> Zero, called |-> FALSE,
            result |-> [crash |-> FALSE, value |-> Zero]]
IdleCam == [keyframes |-> <<>>, t |-> Zero, called |-> FALSE, result |-> EmptyKeyframe]
\* VulkanBase after initVulkan and initializeWaterTestingSystem
InitVb ==
    [isTestModeActive |-> FALSE,
     currentTestRunIndex |-> 0,
     currentTestConfigIndex |-> 0,
     pendingTestConfigs |-> <<>>,
     completedTestResults |-> <<>>,
     autoExportResults |-> TRUE,
     lastCpuTimeMs |-> Zero,
     camera |-> NoPose,
     framebufferResized |-> FALSE,
     currentFrame |-> 0,
     canOpen |-> TRUE,
     resultsCsv |-> NoFile,
     summaryCsv |-> NoFile,
     reportCsv |-> NoFile,
     chartCsv |-> NoFile,
     runCsv |-> NoFile,
     cerr |-> <<>>]
\* the graphics queue with nothing submitted, and the two timestamp queries
\* of a new pool
InitGpu == [queue |-> <<>>, pool |-> [start |-> "unavailable", end |-> "unavailable"]]

\* the history after a call: the device's answer is remembered only for the last read
Called(name) ==
    [hist EXCEPT !.call = name, !.prevGpu = wts.m_lastGpuTimeMs,
                 !.prevRunning = wts.m_isRunning,
                 !.queried = FALSE, !.result = "none", !.ticks = <<0, 0>>,
                 !.frameArg = 0]
NewGeneration(h) ==
    [h EXCEPT !.genReset = FALSE, !.genStartCalled = FALSE,
              !.genStartOk = FALSE, !.genEndOk = FALSE]

InitTimer ==
    /\ \E created \in BOOLEAN, period \in TimestampPeriods :
          /\ wts = NewWts(created, period)
          /\ hist = [InitHist EXCEPT !.poolCreated = created]
    /\ pct = IdlePct /\ cam = IdleCam /\ vb = InitVb /\ pc = "idle" /\ gpu = InitGpu

ApiReset ==
    /\ \E cmd \in BOOLEAN :
          /\ wts' = ResetTimestampQueries(wts, cmd)
          /\ hist' = [Called("resetTimestampQueries") EXCEPT
                          !.genReset = @ \/ ResetIssued(wts, cmd)]
    /\ UNCHANGED <<pct, vb, pc, gpu, cam>>

ApiWriteStart ==
    /\ \E cmd \in BOOLEAN :
          /\ wts' = WriteTimestampStart(wts, cmd)
          /\ hist' = [Called("writeTimestampStart") EXCEPT
                          !.genStartCalled = TRUE,
                          !.genStartOk = @ \/ StartIssued(wts, cmd)]
    /\ UNCHANGED <<pct, vb, pc, gpu, cam>>

ApiWriteEnd ==
    /\ \E cmd \in BOOLEAN :
          /\ wts' = WriteTimestampEnd(wts, cmd)
          /\ hist' = [Called("writeTimestampEnd") EXCEPT
                          !.genEndOk = @ \/ (hist.genStartOk /\ EndIssued(wts, cmd))]
    /\ UNCHANGED <<pct, vb, pc, gpu, cam>>

ApiRead ==
    /\ \E answer \in DeviceAnswers(wts) :
          /\ wts' = ReadGpuTimestamps(wts, answer.result, answer.ticks)
          /\ hist' = [NewGeneration(Called("readGpuTimestamps")) EXCEPT
                          !.queried = ReadQueriesDevice(wts),
                          !.result = answer.result,
                          !.ticks = answer.ticks]
    /\ UNCHANGED <<pct, vb, pc, gpu, cam>>

ApiStartTestRun ==
    /\ \E config \in TimerConfigs, runIndex \in {0, 1} :
          wts' = StartTestRun(wts, config, runIndex)
    /\ hist' = NewGeneration(Called("startTestRun"))
    /\ UNCHANGED <<pct, vb, pc, gpu, cam>>

ApiRecordFrame ==
    /\ Len(wts.m_currentResult.frameMetrics) < MaxTimerFrames
    /\ \E frameTimeMs \in TimerFrameTimes :
          wts' = RecordFrame(wts, wts.m_currentFrameIndex, frameTimeMs, NoPose)
    /\ hist' = Called("recordFrame")
    /\ UNCHANGED <<pct, vb, pc, gpu, cam>>

ApiEndTestRun ==
    /\ wts' = EndTestRun(wts)
    /\ hist' = Called("endTestRun")
    /\ UNCHANGED <<pct, vb, pc, gpu, cam>>

NextTimer ==
    \/ ApiReset \/ ApiWriteStart \/ ApiWriteEnd \/ ApiRead
    \/ ApiStartTestRun \/ ApiRecordFrame \/ ApiEndTestRun
SpecTimer == InitTimer /\ [][NextTimer]_vars

(***************************************************************************)
(* SpecRun: one benchmark run after another through the recorder and the   *)
(* aggregator: startTestRun, recordFrame (at most totalFrames of them, as  *)
(* the host loop ends a run at frame totalFrames - 1), endTestRun at any   *)
(* point.  The GPU timer is not used, so gpuTimeMs is 0 in every frame.    *)
(***************************************************************************)
RunConfigs ==
    {[name |-> <<"scenario">>, depth |-> "Shallow", totalFrames |-> 10, warmupFrames |-> 2, repeatCount |-> 1],
     [name |-> <<"long">>, depth |-> "Shallow", totalFrames |-> 28, warmupFrames |-> 1, repeatCount |-> 1],
     [name |-> <<"allwarm">>, depth |-> "Deep", totalFrames |-> 2, warmupFrames |-> 5, repeatCount |-> 1],
     [name |-> <<"warm=total">>, depth |-> "Deep", totalFrames |-> 3, warmupFrames |-> 3, repeatCount |-> 1]}
\* frame times in ms: 16 everywhere, and 16 or 200 at these frame indices
SlowFrameIndices == {0, 5, 20}
RunFrameTimes(index) == IF index \in SlowFrameIndices THEN {R(16), R(200)} ELSE {R(16)}

InitRun ==
    /\ wts = NewWts(TRUE, R(NS_PER_MS))
    /\ hist = [InitHist EXCEPT !.poolCreated = TRUE]
    /\ pct = IdlePct /\ cam = IdleCam /\ vb = InitVb /\ pc = "idle" /\ gpu = InitGpu

RunStartTestRun ==
    /\ ~wts.m_isRunning
    /\ \E config \in RunConfigs : wts' = StartTestRun(wts, config, 0)
    /\ hist' = NewGeneration(Called("startTestRun"))
    /\ UNCHANGED <<pct, vb, pc, gpu, cam>>

\* the caller may pass any number as frameIndex: the recorder's own counter,
\* a stale 0, or a number ahead of it
FrameIndexArgs(index) == {index, 0, index + 7}
RunRecordFrame ==
    /\ wts.m_isRunning
    /\ wts.m_currentFrameIndex < wts.m_currentConfig.totalFrames
    /\ \E frameTimeMs \in RunFrameTimes(wts.m_currentFrameIndex),
          frameIndex \in FrameIndexArgs(wts.m_currentFrameIndex) :
          /\ wts' = RecordFrame(wts, frameIndex, frameTimeMs, NoPose)
          /\ hist' = [Called("recordFrame") EXCEPT !.frameArg = frameIndex]
    /\ UNCHANGED <<pct, vb, pc, gpu, cam>>

RunEndTestRun ==
    /\ wts.m_isRunning
    /\ wts' = EndTestRun(wts)
    /\ hist' = Called("endTestRun")
    /\ UNCHANGED <<pct, vb, pc, gpu, cam>>

\* a frame that arrives while no run is active
RunLateFrame ==
    /\ ~wts.m_isRunning
    /\ \E frameTimeMs \in RunFrameTimes(0),
          frameIndex \in FrameIndexArgs(wts.m_currentFrameIndex) :
          /\ wts' = RecordFrame(wts, frameIndex, frameTimeMs, NoPose)
          /\ hist' = [Called("recordFrame") EXCEPT !.frameArg = frameIndex]
    /\ UNCHANGED <<pct, vb, pc, gpu, cam>>

NextRun == RunStartTestRun \/ RunRecordFrame \/ RunEndTestRun \/ RunLateFrame
SpecRun == InitRun /\ [][NextRun]_vars

(***************************************************************************)
(* SpecAgg: runs whose frame buffers are then aggregated by endTestRun:     *)
(* every short buffer over a few frame times, and runs with 26 and with 27  *)
(* measured frames.                                                         *)
(***************************************************************************)
MaxAggFrames == 4
AggFrameTimes == {R(0), R(16), R(17), R(200)}
\* a run of 27 frames, the first a warm-up frame
EdgeConfig ==
    [name |-> <<"n26">>, depth |-> "Shallow", totalFrames |-> 27, warmupFrames |-> 1, repeatCount |-> 1]
AggConfigs ==
    {[name |-> <<"short">>, depth |-> "Shallow", totalFrames |-> n, warmupFrames |-> w, repeatCount |-> 1] :
        n \in 0..MaxAggFrames, w \in 0..1}
    \cup {EdgeConfig, [EdgeConfig EXCEPT !.name = <<"n27">>, !.totalFrames = 28]}
\* short runs take any of the frame times at every frame; the long runs take
\* 16 ms everywhere and 16 or 200 ms at the slow frame indices
AggFrameTimesAt(config, index) ==
    IF config.name = <<"short">> THEN AggFrameTimes ELSE RunFrameTimes(index)

InitAgg ==
    /\ wts = NewWts(TRUE, R(NS_PER_MS))
    /\ hist = [InitHist EXCEPT !.poolCreated = TRUE]
    /\ pct = IdlePct /\ cam = IdleCam /\ vb = InitVb /\ pc = "idle" /\ gpu = InitGpu

AggStartTestRun ==
    /\ ~wts.m_isRunning
    /\ \E config \in AggConfigs : wts' = StartTestRun(wts, config, 0)
    /\ hist' = NewGeneration(Called("startTestRun"))
    /\ UNCHANGED <<pct, vb, pc, gpu, cam>>

AggRecordFrame ==
    /\ wts.m_isRunning
    /\ wts.m_currentFrameIndex < wts.m_currentConfig.totalFrames
    /\ \E frameTimeMs \in AggFrameTimesAt(wts.m_currentConfig, wts.m_currentFrameIndex) :
          wts' = RecordFrame(wts, wts.m_currentFrameIndex, frameTimeMs, NoPose)
    /\ hist' = Called("recordFrame")
    /\ UNCHANGED <<pct, vb, pc, gpu, cam>>

AggEndTestRun ==
    /\ wts.m_isRunning
    /\ wts' = EndTestRun(wts)
    /\ hist' = Called("endTestRun")
    /\ UNCHANGED <<pct, vb, pc, gpu, cam>>

NextAgg == AggStartTestRun \/ AggRecordFrame \/ AggEndTestRun
SpecAgg == InitAgg /\ [][NextAgg]_vars

(***************************************************************************)
(* SpecPct: calculatePercentile as a pure function                         *)
(***************************************************************************)
MaxLen == 3
SampleValues == {R(1), R(2), R(3)}
\* percentile requests: in range (the program itself asks for 99 and 1) and out of range
Percentiles == {R(-150), R(0), R(1), R(25), R(50), R(75), R(99), R(100), R(150), R(250)}
SampleLists == UNION {[1..n -> SampleValues] : n \in 1..MaxLen}

InitPct ==
    /\ pct \in [values : SampleLists, percentile : Percentiles,
                called : {FALSE}, result : {[crash |-> FALSE, value |-> Zero]}]
    /\ wts = NewWts(TRUE, R(NS_PER_MS)) /\ hist = InitHist /\ vb = InitVb /\ pc = "idle" /\ gpu = InitGpu
    /\ cam = IdleCam

CallPercentile ==
    /\ ~pct.called
    /\ \E r \in CalculatePercentile(pct.values, pct.percentile) :
          pct' = [pct EXCEPT !.called = TRUE, !.result = r]
    /\ UNCHANGED <<wts, hist, vb, pc, gpu, cam>>

NextPct == CallPercentile
SpecPct == InitPct /\ [][NextPct]_vars

(***************************************************************************)
(* The host: VulkanBase drives the harness from its frame loop             *)
(*   A host state s is the pair [vb, wts].  Frame counts of the            *)
(*   configuration lists are scaled down to HostFrames.                    *)
(***************************************************************************)
MAX_FRAMES_IN_FLIGHT == 2
HostFrames == 2
MaxSessions == 2

\* generatePerformanceTestConfigs, cut down to two configurations
PerformanceTestConfigs ==
    <<[name |-> <<"Perf_Shallow">>, depth |-> "Shallow", totalFrames |-> HostFrames,
       warmupFrames |-> 1, repeatCount |-> 2],
      [name |-> <<"Perf_Deep">>, depth |-> "Deep", totalFrames |-> 1,
       warmupFrames |-> 0, repeatCount |-> 2]>>
\* quickConfig of the "Quick Run (1 Config)" button
QuickConfig ==
    [name |-> <<"QuickTest">>, depth |-> "Shallow", totalFrames |-> HostFrames,
     warmupFrames |-> 1, repeatCount |-> 1]

GetCameraStateForFrame(w, frameIndex) ==
    IF w.m_currentConfig.totalFrames = 0 THEN NoPose
    ELSE [path |-> w.m_cameraPath, t |-> Rat(frameIndex, w.m_currentConfig.totalFrames)]

\* the part of applyTestConfiguration that reaches the harness: the camera path
ApplyTestConfiguration(w, config) ==
    [w EXCEPT !.m_cameraPath = IF config.depth = "Shallow" THEN "SurfaceSweep"
                               ELSE IF config.depth = "Deep" THEN "DepthTransition"
                               ELSE @]

\* startWaterTest without the isTestModeActive guard
StartWaterTest_Restart(s, config) ==
    [vb |-> [s.vb EXCEPT !.isTestModeActive = TRUE,
                         !.currentTestRunIndex = 0,
                         !.lastCpuTimeMs = Zero],
     wts |-> StartTestRun(ApplyTestConfiguration(s.wts, config), config, 0)]

StartWaterTest(s, config) ==
    IF s.vb.isTestModeActive THEN s
    ELSE [vb |-> [s.vb EXCEPT !.isTestModeActive = TRUE,
                              !.currentTestRunIndex = 0,
                              !.lastCpuTimeMs = Zero],
          wts |-> StartTestRun(ApplyTestConfiguration(s.wts, config), config, 0)]

\* the AggregatedRunMetrics of the completed runs
SummaryMetrics(results) == [i \in 1..Len(results) |-> results[i].aggregated]

\* vb.canOpen tells whether the files under test_results/ can be opened;
\* vb.cerr is what the program has written to std::cerr
SummaryExported(v, out) == [v EXCEPT !.summaryCsv = out.file, !.cerr = @ \o out.cerr]
EndWaterTest(s) ==
    [vb |-> [(IF s.vb.completedTestResults = <<>> THEN s.vb
              ELSE SummaryExported(s.vb,
                       ExportSummaryToCSV(s.vb.summaryCsv,
                                          SummaryMetrics(s.vb.completedTestResults),
                                          s.vb.canOpen)))
                EXCEPT !.isTestModeActive = FALSE,
                       !.currentTestConfigIndex = 0,
                       !.currentTestRunIndex = 0,
                       !.pendingTestConfigs = <<>>],
     wts |-> s.wts]

PreFrameWaterTestUpdate(s) ==
    IF ~s.vb.isTestModeActive THEN s
    ELSE IF ~s.wts.m_isRunning THEN s
    ELSE [vb |-> [s.vb EXCEPT !.camera =
                      GetCameraStateForFrame(s.wts, s.wts.m_currentFrameIndex)],
          wts |-> s.wts]

\* currentFrame >= config.totalFrames - 1, compared as unsigned: a negative
\* right-hand side converts to a value above every frame index
RunComplete(currentFrame, totalFrames) ==
    IF totalFrames - 1 < 0 THEN FALSE ELSE currentFrame >= totalFrames - 1

\* all runs of the configuration are done: the next configuration, or the end
NextConfigOrEnd(v, w) ==
    IF v.currentTestConfigIndex < Len(v.pendingTestConfigs)
    THEN [vb |-> [v EXCEPT !.currentTestRunIndex = 0],
          wts |-> StartTestRun(
                      ApplyTestConfiguration(w, v.pendingTestConfigs[v.currentTestConfigIndex + 1]),
                      v.pendingTestConfigs[v.currentTestConfigIndex + 1], 0)]
    ELSE EndWaterTest([vb |-> v, wts |-> w])

\* the run has been counted: the next run of the configuration, or the above
NextRunOrConfig_NoRepeat(v, w, config) ==
    NextConfigOrEnd([v EXCEPT !.currentTestConfigIndex = @ + 1], w)
\* the repeat test with <= in place of <
NextRunOrConfig_OneMore(v, w, config) ==
    IF v.currentTestRunIndex <= config.repeatCount
    THEN [vb |-> v, wts |-> StartTestRun(w, config, v.currentTestRunIndex)]
    ELSE NextConfigOrEnd([v EXCEPT !.currentTestConfigIndex = @ + 1], w)
NextRunOrConfig(v, w, config) ==
    IF v.currentTestRunIndex < config.repeatCount
    THEN [vb |-> v, wts |-> StartTestRun(w, config, v.currentTestRunIndex)]
    ELSE NextConfigOrEnd([v EXCEPT !.currentTestConfigIndex = @ + 1], w)

\* w has ended its run: append to the CSV file, store the result, count the run
RunAppended(v, out) == [v EXCEPT !.resultsCsv = out.file, !.cerr = @ \o out.cerr]
RunEnded(v, w, config) ==
    NextRunOrConfig([(IF v.autoExportResults
                      THEN RunAppended(v, AppendRunToCSV(v.resultsCsv, w.m_currentResult,
                                                         v.canOpen))
                      ELSE v)
                        EXCEPT !.completedTestResults = Append(@, w.m_currentResult),
                               !.currentTestRunIndex = @ + 1],
                    w, config)

\* w has recorded frame currentFrame
FrameRecorded(v, w, config, currentFrame) ==
    IF ~RunComplete(currentFrame, config.totalFrames) THEN [vb |-> v, wts |-> w]
    ELSE RunEnded(v, EndTestRun(w), config)

PostFrameWaterTestUpdate(s) ==
    IF ~s.vb.isTestModeActive THEN s
    ELSE IF ~s.wts.m_isRunning THEN s
    ELSE FrameRecorded(s.vb,
                       RecordFrame(s.wts, s.wts.m_currentFrameIndex,
                                   s.vb.lastCpuTimeMs, s.vb.camera),
                       s.wts.m_currentConfig, s.wts.m_currentFrameIndex)

\* generatePerformanceChartData
ChartTitles == <<"Config", "MeanFPS", "MedianFPS", "1%LowFPS", "MeanFrameTime_ms">>
ChartRow(m) ==
    JoinFields(<<m.configName, FormatFixed(m.meanFPS, 2), FormatFixed(m.medianFPS, 2),
                 FormatFixed(m.fps1Low, 2), FormatFixed(m.meanFrameTime, 2)>>)
GeneratePerformanceChartData(file, metrics, canOpen) ==
    IF ~canOpen THEN [file |-> file, cerr |-> <<>>]
    ELSE [file |-> Write(OpenTruncate(file),
                         <<TitleLine(ChartTitles)>>
                         \o [i \in 1..Len(metrics) |-> ChartRow(metrics[i])]),
          cerr |-> <<>>]

\* exportTestResults: the report and the chart file, each under a new name
ReportExported(v, report, chart) ==
    [v EXCEPT !.reportCsv = report.file, !.chartCsv = chart.file,
              !.cerr = @ \o report.cerr \o chart.cerr]
ExportTestResults(s) ==
    IF s.vb.completedTestResults = <<>> THEN s
    ELSE [vb |-> ReportExported(s.vb,
                     ExportToCSV(NoFile,
                                 [suiteName |-> <<"WaterTestSuite">>, timestamp |-> ClockNow,
                                  runs |-> s.vb.completedTestResults],
                                 s.vb.canOpen),
                     GeneratePerformanceChartData(NoFile,
                                 SummaryMetrics(s.vb.completedTestResults), s.vb.canOpen)),
          wts |-> s.wts]

\* what the user can do in the "Testing" panel while it is drawn
UiClicks(v) ==
    (IF v.isTestModeActive THEN {"none", "stop"} ELSE {"none", "suite", "quick"})
    \cup (IF v.completedTestResults # <<>> THEN {"export", "clear"} ELSE {})
RenderTestingUI(s, click) ==
    IF click = "stop" /\ s.vb.isTestModeActive THEN EndWaterTest(s)
    ELSE IF click = "suite" /\ ~s.vb.isTestModeActive
    THEN StartWaterTest([vb |-> [s.vb EXCEPT !.completedTestResults = <<>>,
                                             !.currentTestConfigIndex = 0,
                                             !.pendingTestConfigs = PerformanceTestConfigs],
                         wts |-> s.wts],
                        PerformanceTestConfigs[1])
    ELSE IF click = "quick" /\ ~s.vb.isTestModeActive
    THEN StartWaterTest([vb |-> [s.vb EXCEPT !.completedTestResults = <<>>,
                                             !.pendingTestConfigs = <<QuickConfig>>,
                                             !.currentTestConfigIndex = 0],
                         wts |-> s.wts],
                        QuickConfig)
    ELSE IF click = "export" THEN ExportTestResults(s)
    ELSE IF click = "clear" THEN [vb |-> [s.vb EXCEPT !.completedTestResults = <<>>],
                                  wts |-> s.wts]
    ELSE s

\* recordCommandBuffer: the GPU timer is started first, the panel is drawn
\* (and its buttons act) in the middle, the timer is ended last.  sub tells
\* which of the three timer commands went into the command buffer.
TimerBegin(w, test) ==
    IF test THEN WriteTimestampStart(ResetTimestampQueries(w, TRUE), TRUE) ELSE w
TimerBeginIssued(w, test) ==
    [reset |-> test /\ ResetIssued(w, TRUE),
     start |-> test /\ StartIssued(ResetTimestampQueries(w, TRUE), TRUE)]
TimerEnd(s, begun) ==
    [vb |-> s.vb,
     wts |-> IF s.vb.isTestModeActive THEN WriteTimestampEnd(s.wts, TRUE) ELSE s.wts,
     sub |-> [reset |-> begun.reset, start |-> begun.start,
              end |-> s.vb.isTestModeActive /\ EndIssued(s.wts, TRUE),
              age |-> "thisFrame"]]
RecordCommandBuffer(s, click) ==
    TimerEnd(RenderTestingUI([vb |-> s.vb, wts |-> TimerBegin(s.wts, s.vb.isTestModeActive)],
                             click),
             TimerBeginIssued(s.wts, s.vb.isTestModeActive))

(***************************************************************************)
(* SpecHost: mainLoop with the device running beside it                    *)
(*   pc is the host thread's position in one loop iteration: "loop" (the   *)
(*   top), "draw" (drawFrame entered), "present" (submitted, presenting),  *)
(*   "sync" (drawFrame returned), "read" (vkQueueWaitIdle returned).       *)
(*   gpu.queue holds the submitted command buffers the device has not      *)
(*   finished, oldest first; gpu.pool tells for each of the two timestamp  *)
(*   queries whether it holds a value and which frame wrote it.            *)
(***************************************************************************)
HostFrameTimes == {R(16)}

\* a loop iteration begins: what the device holds is now of an earlier frame
Older(age) == IF age = "thisFrame" THEN "earlierFrame" ELSE age
AgeDevice(g) ==
    [queue |-> [i \in 1..Len(g.queue) |-> [g.queue[i] EXCEPT !.age = Older(@)]],
     pool |-> [start |-> Older(g.pool.start), end |-> Older(g.pool.end)]]

\* the device executes one command buffer: vkCmdResetQueryPool makes both
\* queries unavailable, vkCmdWriteTimestamp makes one available
Execute(pool, sub) ==
    LET p1 == IF sub.reset THEN [start |-> "unavailable", end |-> "unavailable"] ELSE pool
        p2 == IF sub.start THEN [p1 EXCEPT !.start = sub.age] ELSE p1
    IN  IF sub.end THEN [p2 EXCEPT !.end = sub.age] ELSE p2

\* vkWaitForFences on the slot's fence: the submission made
\* MAX_FRAMES_IN_FLIGHT submissions ago has finished
FenceSignaled(queue) == Len(queue) < MAX_FRAMES_IN_FLIGHT
\* vkQueueWaitIdle / vkDeviceWaitIdle return once nothing is left in the queue
QueueWaitIdleDone_NoWait(queue) == TRUE
QueueWaitIdleDone(queue) == queue = <<>>

PoolAvailable(pool) == pool.start # "unavailable" /\ pool.end # "unavailable"
\* vkGetQueryPoolResults with VK_QUERY_RESULT_WAIT_BIT on the host loop's
\* device, which is healthy and takes one tick per frame (SpecTimer has the
\* other answers)
HostDeviceAnswers(w) ==
    IF ReadQueriesDevice(w)
    THEN {[result |-> "VK_SUCCESS", ticks |-> <<1, 2>>]}
    ELSE {[result |-> "none", ticks |-> <<0, 0>>]}

InitHost ==
    /\ \E created \in BOOLEAN :
          /\ wts = [NewWts(created, R(NS_PER_MS)) EXCEPT !.m_cameraPath = "UnderwaterSweep"]
          /\ hist = [InitHist EXCEPT !.poolCreated = created]
    /\ \E canOpen \in BOOLEAN : vb = [InitVb EXCEPT !.canOpen = canOpen]
    /\ pct = IdlePct /\ cam = IdleCam /\ pc = "loop" /\ gpu = InitGpu

\* glfwPollEvents (a resize may arrive) and the pre-frame update
HostPreFrame ==
    /\ pc = "loop"
    /\ \E resized \in BOOLEAN :
          vb' = [PreFrameWaterTestUpdate([vb |-> vb, wts |-> wts]).vb
                     EXCEPT !.framebufferResized = resized]
    /\ gpu' = AgeDevice(gpu)
    /\ hist' = [hist EXCEPT !.call = "preFrame", !.submitted = FALSE, !.sub = NoSubmission,
                            !.recorded = 0,
                            !.posed = vb.isTestModeActive /\ wts.m_isRunning]
    /\ pc' = "draw"
    /\ UNCHANGED <<wts, pct, cam>>

\* drawFrame returns without recording: the framebuffer was resized, or the
\* swap chain image could not be acquired; recreateSwapChain waits for the device
DrawFrameSkipped ==
    /\ pc = "draw"
    /\ vb.framebufferResized \/ FenceSignaled(gpu.queue)
    /\ QueueWaitIdleDone(gpu.queue)
    /\ vb' = [vb EXCEPT !.framebufferResized = FALSE]
    /\ hist' = [hist EXCEPT !.call = "drawFrameSkipped"]
    /\ pc' = "sync"
    /\ UNCHANGED <<wts, pct, gpu, cam>>

\* vkQueueSubmit of the command buffer r was recorded into; the history notes
\* the button pressed while it was recorded
Submit(r, click) ==
    /\ vb' = r.vb
    /\ wts' = r.wts
    /\ gpu' = [gpu EXCEPT !.queue = Append(@, r.sub)]
    /\ hist' = [hist EXCEPT !.call = "drawFrame", !.submitted = TRUE, !.sub = r.sub,
                            !.click = click,
                            !.sessions = IF click \in {"suite", "quick"} THEN @ + 1 ELSE @,
                            !.suite = IF click \in {"suite", "quick"}
                                      THEN r.vb.pendingTestConfigs ELSE @,
                            !.cancelled = IF click \in {"suite", "quick"} THEN FALSE
                                          ELSE @ \/ click = "stop",
                            !.cleared = IF click \in {"suite", "quick"} THEN FALSE
                                        ELSE @ \/ click = "clear",
                            !.extraPressed = @ \/ click \in {"export", "clear"}]

\* drawFrame up to vkQueueSubmit: fence wait, recordCommandBuffer, submit
\* (the user starts at most MaxSessions tests and presses "Export All
\* Results" or "Clear Results" at most once)
DrawFrameRecorded ==
    /\ pc = "draw"
    /\ ~vb.framebufferResized
    /\ FenceSignaled(gpu.queue)
    /\ \E click \in UiClicks(vb) :
          /\ click \in {"suite", "quick"} => hist.sessions < MaxSessions
          /\ click \in {"export", "clear"} => ~hist.extraPressed
          /\ Submit(RecordCommandBuffer([vb |-> vb, wts |-> wts], click), click)
    /\ pc' = "present"
    /\ UNCHANGED <<pct, cam>>

\* the rest of drawFrame: vkQueuePresentKHR, recreateSwapChain when the swap
\* chain is out of date, and the move to the next frame slot
DrawFramePresent ==
    /\ pc = "present"
    /\ \E outOfDate \in BOOLEAN : outOfDate => QueueWaitIdleDone(gpu.queue)
    /\ vb' = [vb EXCEPT !.currentFrame = (@ + 1) % MAX_FRAMES_IN_FLIGHT]
    /\ hist' = [hist EXCEPT !.call = "present"]
    /\ pc' = "sync"
    /\ UNCHANGED <<wts, pct, gpu, cam>>

\* mainLoop after drawFrame, test mode: vkQueueWaitIdle(graphicsQueue)
HostWaitIdle ==
    /\ pc = "sync"
    /\ vb.isTestModeActive
    /\ QueueWaitIdleDone(gpu.queue)
    /\ hist' = [hist EXCEPT !.call = "vkQueueWaitIdle"]
    /\ pc' = "read"
    /\ UNCHANGED <<wts, pct, vb, gpu, cam>>

\* mainLoop after drawFrame outside test mode: nothing of the harness runs
HostNoTest ==
    /\ pc = "sync"
    /\ ~vb.isTestModeActive
    /\ hist' = [hist EXCEPT !.call = "noTest"]
    /\ pc' = "loop"
    /\ UNCHANGED <<wts, pct, vb, gpu, cam>>

\* the host state s after postFrameWaterTestUpdate becomes the state
Becomes(s) == vb' = s.vb /\ wts' = s.wts

\* mainLoop after the wait: readGpuTimestamps, the frame time, and
\* postFrameWaterTestUpdate
HostReadAndPost ==
    /\ pc = "read"
    /\ ReadQueriesDevice(wts) => PoolAvailable(gpu.pool)
    /\ \E answer \in HostDeviceAnswers(wts), frameTimeMs \in HostFrameTimes :
          Becomes(PostFrameWaterTestUpdate(
                      [vb |-> [vb EXCEPT !.lastCpuTimeMs = frameTimeMs],
                       wts |-> ReadGpuTimestamps(wts, answer.result, answer.ticks)]))
    /\ hist' = [hist EXCEPT !.call = "readGpuTimestamps", !.prevGpu = wts.m_lastGpuTimeMs,
                            !.recorded = IF wts.m_isRunning THEN 1 ELSE 0]
    /\ pc' = "loop"
    /\ UNCHANGED <<pct, gpu, cam>>

\* the device finishes the oldest submission
GpuComplete ==
    /\ pc \in {"loop", "draw", "present", "sync", "read"}
    /\ gpu.queue # <<>>
    /\ gpu' = [queue |-> Tail(gpu.queue), pool |-> Execute(gpu.pool, Head(gpu.queue))]
    /\ UNCHANGED <<wts, hist, pct, vb, pc, cam>>

NextHost ==
    \/ HostPreFrame \/ DrawFrameSkipped \/ DrawFrameRecorded \/ DrawFramePresent
    \/ HostWaitIdle \/ HostNoTest \/ HostReadAndPost \/ GpuComplete
SpecHost == InitHost /\ [][NextHost]_vars

(***************************************************************************)
(* SpecBound: the harness side of mainLoop for any frame count             *)
(*   startWaterTest is called with a queue of configurations whose         *)
(*   totalFrames runs from 0 up; each step is one iteration of mainLoop    *)
(*   in test mode as the harness sees it.                                  *)
(***************************************************************************)
MaxTotalFrames == 2
MaxBoundFrames == 4
BoundConfigs ==
    {[name |-> <<"N">>, depth |-> "Shallow", totalFrames |-> n, warmupFrames |-> 0,
      repeatCount |-> r] : n \in 0..MaxTotalFrames, r \in -1..2}
BoundSuites == {<<c>> : c \in BoundConfigs} \cup {<<c, d>> : c, d \in BoundConfigs}

InitBound ==
    /\ wts = [NewWts(TRUE, R(NS_PER_MS)) EXCEPT !.m_cameraPath = "UnderwaterSweep"]
    /\ hist = [InitHist EXCEPT !.poolCreated = TRUE]
    /\ vb = InitVb /\ pct = IdlePct /\ cam = IdleCam /\ pc = "loop" /\ gpu = InitGpu

\* pendingTestConfigs is filled and startWaterTest(pendingTestConfigs[0]) called
BoundStart ==
    /\ ~vb.isTestModeActive
    /\ hist.sessions < MaxSessions
    /\ \E configs \in BoundSuites :
          /\ Becomes(StartWaterTest([vb |-> [vb EXCEPT !.completedTestResults = <<>>,
                                                       !.currentTestConfigIndex = 0,
                                                       !.pendingTestConfigs = configs],
                                     wts |-> wts],
                                    configs[1]))
          /\ hist' = [hist EXCEPT !.call = "startWaterTest", !.sessions = @ + 1,
                                  !.suite = configs, !.recorded = 0]
    /\ UNCHANGED <<pct, pc, gpu, cam>>

\* one iteration in test mode: preFrameWaterTestUpdate, the frame, and
\* postFrameWaterTestUpdate (at most MaxBoundFrames frames of one run are followed)
BoundFrame ==
    /\ vb.isTestModeActive
    /\ Len(wts.m_currentResult.frameMetrics) < MaxBoundFrames
    /\ \E frameTimeMs \in HostFrameTimes :
          Becomes(PostFrameWaterTestUpdate(
                      [vb |-> [PreFrameWaterTestUpdate([vb |-> vb, wts |-> wts]).vb
                                  EXCEPT !.lastCpuTimeMs = frameTimeMs],
                       wts |-> wts]))
    /\ hist' = [hist EXCEPT !.call = "frame", !.posed = wts.m_isRunning,
                            !.recorded = IF wts.m_isRunning THEN 1 ELSE 0]
    /\ UNCHANGED <<pct, pc, gpu, cam>>

NextBound == BoundStart \/ BoundFrame
SpecBound == InitBound /\ [][NextBound]_vars

(***************************************************************************)
(* SpecPath: one call of interpolate on a path                             *)
(*   The paths are createDepthTransitionPath and every sequence of 2 to    *)
(*   MaxKeyframes sample poses at strictly increasing times k / TimeSteps. *)
(***************************************************************************)
MaxKeyframes == 3
TimeSteps == 4
TimeGrid == {Rat(k, TimeSteps) : k \in 0..TimeSteps}
PoseSamples ==
    {Keyframe(Zero, Zero, Zero, Zero, Zero, Zero),
     Keyframe(R(1), R(2), R(3), R(90), R(5), Zero),
     Keyframe(R(-1), Zero, R(2), R(-90), R(-3), Zero)}
KeyframeSamples == {[k EXCEPT !.timestamp = ts] : k \in PoseSamples, ts \in TimeGrid}
StrictlyIncreasing(keyframes) ==
    \A i \in 1..(Len(keyframes) - 1) : RLt(keyframes[i].timestamp, keyframes[i + 1].timestamp)
PathSamples ==
    {DepthTransitionPath}
    \cup UNION {{ks \in [1..n -> KeyframeSamples] : StrictlyIncreasing(ks)} : n \in 2..MaxKeyframes}
\* the argument t: the grid at half steps, and one value outside [0, 1] on each side
PathTimes == {Rat(k, 2 * TimeSteps) : k \in -1..(2 * TimeSteps + 1)}

InitPath ==
    /\ cam \in [keyframes : PathSamples, t : PathTimes, called : {FALSE},
                result : {EmptyKeyframe}]
    /\ wts = NewWts(TRUE, R(NS_PER_MS)) /\ hist = InitHist /\ vb = InitVb
    /\ pct = IdlePct /\ pc = "idle" /\ gpu = InitGpu

CallInterpolate ==
    /\ ~cam.called
    /\ cam' = [cam EXCEPT !.called = TRUE, !.result = Interpolate(cam.keyframes, cam.t)]
    /\ UNCHANGED <<wts, hist, pct, vb, pc, gpu>>

NextPath == CallInterpolate
SpecPath == InitPath /\ [][NextPath]_vars

(***************************************************************************)
(* SpecExport: runs are made and the exporters are called on them          *)
(*   The finished runs are kept in vb.completedTestResults; each exporter  *)
(*   has its own path (vb.resultsCsv for appendRunToCSV, vb.runCsv for     *)
(*   exportRunToCSV, vb.summaryCsv, vb.reportCsv), none of which exists at *)
(*   first.  Every call may find its file impossible to open.  hist notes  *)
(*   the last call, whether it could open its file, and the runs that      *)
(*   appendRunToCSV was given when it could.                               *)
(***************************************************************************)
MaxExportRuns == 2
MaxExportCalls == 3
\* configuration names without and with the characters CSV treats specially
ExportNames == {<<"A">>, <<"B", ",", "1">>, <<"say ", "\"", "hi", "\"">>}
ExportConfigs ==
    {[name |-> n, depth |-> "Shallow", totalFrames |-> 2, warmupFrames |-> 0,
      repeatCount |-> 2] : n \in ExportNames}
\* startTestRun, two recordFrame calls, endTestRun (the runs of a
\* configuration are numbered 0, 1 as repeatCount = 2 has them)
FinishedRun(w, config, runIndex) ==
    EndTestRun(RecordFrame(RecordFrame(StartTestRun(w, config, runIndex),
                                       0, R(16), NoPose),
                           1, R(20), NoPose))

InitExport ==
    /\ wts = [NewWts(TRUE, R(NS_PER_MS)) EXCEPT !.m_cameraPath = "UnderwaterSweep"]
    /\ hist = [InitHist EXCEPT !.poolCreated = TRUE]
    /\ vb = InitVb /\ pct = IdlePct /\ cam = IdleCam /\ pc = "idle" /\ gpu = InitGpu

ExpRun ==
    /\ Len(vb.completedTestResults) < MaxExportRuns
    /\ \E config \in ExportConfigs :
          /\ wts' = FinishedRun(wts, config, Len(vb.completedTestResults) % 2)
          /\ vb' = [vb EXCEPT !.completedTestResults =
                        Append(@, FinishedRun(wts, config, Len(@) % 2).m_currentResult)]
    /\ hist' = [hist EXCEPT !.call = "endTestRun"]
    /\ UNCHANGED <<pct, pc, gpu, cam>>

\* the history after an export call
Exported(name, canOpen) ==
    [hist EXCEPT !.call = name, !.opened = canOpen, !.exports = @ + 1]

ExpAppendRun ==
    /\ hist.exports < MaxExportCalls
    /\ \E i \in 1..Len(vb.completedTestResults), canOpen \in BOOLEAN :
          /\ vb' = RunAppended(vb, AppendRunToCSV(vb.resultsCsv, vb.completedTestResults[i],
                                                  canOpen))
          /\ hist' = [Exported("appendRunToCSV", canOpen) EXCEPT !.appended =
                         IF canOpen THEN Append(@, vb.completedTestResults[i]) ELSE @]
    /\ UNCHANGED <<wts, pct, pc, gpu, cam>>

RunExported(v, out) == [v EXCEPT !.runCsv = out.file, !.cerr = @ \o out.cerr]
ExpExportRun ==
    /\ hist.exports < MaxExportCalls
    /\ \E i \in 1..Len(vb.completedTestResults), canOpen \in BOOLEAN :
          /\ vb' = RunExported(vb, ExportRunToCSV(vb.runCsv, vb.completedTestResults[i], canOpen))
          /\ hist' = Exported("exportRunToCSV", canOpen)
    /\ UNCHANGED <<wts, pct, pc, gpu, cam>>

ExpExportSummary ==
    /\ hist.exports < MaxExportCalls
    /\ \E canOpen \in BOOLEAN :
          /\ vb' = SummaryExported(vb, ExportSummaryToCSV(vb.summaryCsv,
                                           SummaryMetrics(vb.completedTestResults), canOpen))
          /\ hist' = Exported("exportSummaryToCSV", canOpen)
    /\ UNCHANGED <<wts, pct, pc, gpu, cam>>

SuiteExported(v, out) == [v EXCEPT !.reportCsv = out.file, !.cerr = @ \o out.cerr]
ExpExportToCSV ==
    /\ hist.exports < MaxExportCalls
    /\ \E canOpen \in BOOLEAN :
          /\ vb' = SuiteExported(vb, ExportToCSV(vb.reportCsv,
                                         [suiteName |-> <<"WaterTestSuite">>,
                                          timestamp |-> ClockNow,
                                          runs |-> vb.completedTestResults],
                                         canOpen))
          /\ hist' = Exported("exportToCSV", canOpen)
    /\ UNCHANGED <<wts, pct, pc, gpu, cam>>

NextExport == ExpRun \/ ExpAppendRun \/ ExpExportRun \/ ExpExportSummary \/ ExpExportToCSV
SpecExport == InitExport /\ [][NextExport]_vars

(***************************************************************************)
(* Claims                                                                  *)
(***************************************************************************)
TimerCalls ==
    {"resetTimestampQueries", "writeTimestampStart", "writeTimestampEnd", "readGpuTimestamps"}
Frames == wts.m_currentResult.frameMetrics

\* C1 (as claimed): a writeTimestampEnd with no successful writeTimestampStart
\* earlier in the same generation changes nothing, and a readGpuTimestamps that
\* ends a generation in which no writeTimestampEnd followed a successful
\* writeTimestampStart leaves the last GPU time as it was.
C1_EndWithoutStartIsNoOp ==
    [][ /\ (hist'.call = "writeTimestampEnd" /\ ~hist.genStartOk) => wts' = wts
        /\ (hist'.call = "readGpuTimestamps" /\ ~hist.genEndOk) =>
               wts'.m_lastGpuTimeMs = wts.m_lastGpuTimeMs ]_vars

\* C2 (as claimed): a writeTimestampStart in a generation that has seen no
\* resetTimestampQueries does not arm the pair, and the readGpuTimestamps ending
\* a generation that saw a writeTimestampStart but no reset neither queries the
\* device nor changes the last GPU time.
C2_StartNeedsResetThisGeneration ==
    [][ /\ (hist'.call = "writeTimestampStart" /\ ~hist.genReset) =>
               ~wts'.m_startTimestampWritten
        /\ (hist'.call = "readGpuTimestamps" /\ hist.genStartCalled /\ ~hist.genReset) =>
               (~hist'.queried /\ wts'.m_lastGpuTimeMs = wts.m_lastGpuTimeMs) ]_vars

\* C3: during a test, in every iteration of the host frame loop, the
\* vkQueueWaitIdle has returned before readGpuTimestamps runs: no submission
\* is left undrained then; when that read queries the device, this
\* iteration's submission carried the reset, the start write and the end
\* write, and both queries hold this frame's values; and when the next
\* frame's commands (its reset first) are recorded, no read is outstanding.
C3_ReadOnlyAfterDrain ==
    /\ pc = "read" => gpu.queue = <<>>
    /\ (pc = "read" /\ ReadQueriesDevice(wts)) =>
          /\ hist.submitted
          /\ hist.sub.reset /\ hist.sub.start /\ hist.sub.end
          /\ gpu.pool.start = "thisFrame" /\ gpu.pool.end = "thisFrame"
    /\ pc = "draw" => ~ReadQueriesDevice(wts)
C3_Witness ==
    /\ pc = "read" /\ vb.isTestModeActive /\ ReadQueriesDevice(wts)
    /\ hist.sub.end /\ wts.m_currentFrameIndex > 0

C5_DegradedTimer ==
    ~hist.poolCreated =>
        /\ ~wts.m_timestampQueryPool
        /\ wts.m_queryPoolNeedsReset /\ ~wts.m_startTimestampWritten /\ ~wts.m_timestampsWritten
        /\ ~hist.queried
        /\ wts.m_lastGpuTimeMs = Zero
        /\ hist.call \in TimerCalls => wts.m_isRunning = hist.prevRunning
        /\ \A i \in 1..Len(Frames) :
              Frames[i].gpuTimeMs = Zero /\ Frames[i].cpuTimeMs = Frames[i].frameTimeMs

\* C5 witness: degraded, in a run, a frame was recorded after the timer calls
\* and the read of the frame, and the run is still active.
C5_Witness ==
    /\ ~hist.poolCreated /\ wts.m_isRunning
    /\ hist.call = "readGpuTimestamps"
    /\ Len(Frames) = 1 /\ Frames[1].cpuTimeMs = R(1)

Agg == wts.m_currentResult.aggregated
StatFields ==
    {"meanFrameTime", "medianFrameTime", "stddevFrameTime", "minFrameTime", "maxFrameTime",
     "percentile1Low", "percentile99", "meanFPS", "medianFPS", "fps1Low",
     "meanGpuTime", "medianGpuTime", "stddevGpuTime"}

\* the end-to-end scenario has just been finalized: config {totalFrames = 10,
\* warmupFrames = 2}, ten frames of 16.0 ms except frame index 5 = 200.0 ms
ScenarioFinalized ==
    /\ hist.call = "endTestRun"
    /\ wts.m_currentConfig.totalFrames = 10 /\ wts.m_currentConfig.warmupFrames = 2
    /\ Len(Frames) = 10
    /\ \A i \in 1..Len(Frames) :
          Frames[i].frameTimeMs = IF Frames[i].frameIndex = 5 THEN R(200) ELSE R(16)

\* C6 (as claimed): the scenario's rollup has validFrameCount = 7,
\* outlierCount = 1 and meanFrameTime = 16.0.
C6_ScenarioRejectsSlowFrame ==
    ScenarioFinalized =>
        (Agg.validFrameCount = 7 /\ Agg.outlierCount = 1 /\ Agg.meanFrameTime = R(16))

\* C6 (amended): the scenario's rollup has validFrameCount = 8, outlierCount = 0
\* and meanFrameTime = 39.0: the 200.0 ms frame lies within 5 sample standard
\* deviations of the mean of the 8 non-warm-up frames and is not rejected.
C6_ScenarioKeepsSlowFrame ==
    ScenarioFinalized =>
        (Agg.validFrameCount = 8 /\ Agg.outlierCount = 0 /\ Agg.meanFrameTime = R(39))

\* C6 witness: the scenario was run and finalized.
C6_Witness == ScenarioFinalized /\ Agg.maxFrameTime = R(200)

\* C7 (as claimed): in the finalized run's frame records, the frames with
\* isOutlier = TRUE are exactly the non-warm-up frames that aggregation
\* rejected, as many as outlierCount.
C7_OutliersAreMarked ==
    hist.call = "endTestRun" =>
        LET kept == NonWarmupFrames(Frames)
            rejected == OutlierIndices(SeqField(kept, "frameTimeMs"))
        IN  /\ Cardinality({i \in 1..Len(Frames) : Frames[i].isOutlier}) = Agg.outlierCount
            /\ \A k \in 1..Len(kept) : kept[k].isOutlier <=> k \in rejected

\* C8: a run finalized with no frame, or with every recorded frame index below
\* warmupFrames, has validFrameCount = 0, outlierCount = 0 and every statistic 0.
C8_ZeroRollup ==
    (hist.call = "endTestRun" /\ Len(Frames) <= wts.m_currentConfig.warmupFrames) =>
        /\ Agg.validFrameCount = 0 /\ Agg.outlierCount = 0
        /\ \A f \in StatFields : Agg[f] = Zero

\* C8 witness: a run whose two frames are both warm-up frames (warmupFrames
\* above totalFrames) was finalized.
C8_Witness ==
    /\ hist.call = "endTestRun" /\ Len(Frames) = 2
    /\ wts.m_currentConfig.warmupFrames > wts.m_currentConfig.totalFrames
    /\ Frames[1].isWarmupFrame /\ Frames[2].isWarmupFrame

\* C8 witness of the empty run: endTestRun right after startTestRun
C8_WitnessEmpty == hist.call = "endTestRun" /\ Frames = <<>>

\* the rank of r in values: how many elements are below it, how many not above it
CountBelow(values, r) == Cardinality({i \in 1..Len(values) : RLt(values[i], r)})
CountNotAbove(values, r) == Cardinality({i \in 1..Len(values) : RLe(values[i], r)})
IsOrderStatistic(values, k, r) ==
    /\ \E i \in 1..Len(values) : values[i] = r
    /\ CountBelow(values, r) <= k /\ k < CountNotAbove(values, r)
PctInRange == RLe(Zero, pct.percentile) /\ RLe(pct.percentile, R(100))
\* floor and round-half-up of p/100 * (n-1) for an integral p >= 0
PctFloorRank == (pct.percentile.num * (Len(pct.values) - 1)) \div 100
PctRoundRank == (2 * pct.percentile.num * (Len(pct.values) - 1) + 100) \div 200

C10_IndexClamped ==
    pct.called =>
        (~pct.result.crash /\ \E i \in 1..Len(pct.values) : pct.values[i] = pct.result.value)

\* the percentile requests of the sample set that lie in [0,100]
InRangePercentiles == {p \in Percentiles : RLe(Zero, p) /\ RLe(p, R(100))}

\* C11: for a non-empty list and p1 <= p2 in [0,100], the result for p1 is not
\* above the result for p2 (p1 is the request just answered, p2 any request
\* not below it).
C11_PercentileMonotone ==
    (pct.called /\ PctInRange) =>
        \A p2 \in InRangePercentiles :
            RLe(pct.percentile, p2) =>
                \A r2 \in CalculatePercentile(pct.values, p2) :
                    ~pct.result.crash /\ ~r2.crash /\ RLe(pct.result.value, r2.value)

\* C11 witness: for the unsorted list 3, 1, 2 the 25th percentile is 1, below
\* the 75th percentile 2.
C11_Witness ==
    /\ pct.called /\ pct.percentile = R(25) /\ pct.values = <<R(3), R(1), R(2)>>
    /\ pct.result.value = R(1)
    /\ CalculatePercentile(pct.values, R(75)) = {[crash |-> FALSE, value |-> R(2)]}


\* the runs a suite owes: every configuration of the queue, repeatCount times
RECURSIVE ExpectedRuns(_)
ExpectedRuns(configs) ==
    IF configs = <<>> THEN <<>>
    ELSE [i \in 1..Head(configs).repeatCount |->
             [name |-> Head(configs).name, run |-> i - 1]]
         \o ExpectedRuns(Tail(configs))
CompletedRuns(results) ==
    [i \in 1..Len(results) |-> [name |-> results[i].config.name, run |-> results[i].runIndex]]
IsPrefix(a, b) == Len(a) <= Len(b) /\ SubSeq(b, 1, Len(a)) = a
\* the data rows of a CSV file, and whether a line begins with the given field
DataRows(file) == IF file.lines = <<>> THEN <<>> ELSE Tail(file.lines)
FirstFieldIs(line, field) ==
    /\ Len(line) > Len(field)
    /\ SubSeq(line, 1, Len(field)) = field
    /\ line[Len(field) + 1] = ","
\* a suite was started with a Run button and since then neither "Stop Test"
\* nor "Clear Results" was pressed
Undisturbed == hist.sessions > 0 /\ ~hist.cancelled /\ ~hist.cleared
SuiteDone == Undisturbed /\ ~vb.isTestModeActive

C13_StopFinalizesRun ==
    (hist.call = "drawFrame" /\ hist.click = "stop") =>
        /\ ~wts.m_isRunning
        /\ wts.m_currentResult.aggregated =
              AggregateMetrics(wts.m_currentResult.frameMetrics, wts.m_currentConfig)


\* C14: a started run ends after at most max(1, totalFrames) recorded
\* frames, for every totalFrames from 0 up: a run that is still going has
\* recorded fewer frames than that.
C14_RunBoundedByTotalFrames ==
    (vb.isTestModeActive /\ wts.m_isRunning) =>
        Len(wts.m_currentResult.frameMetrics) <
            (IF wts.m_currentConfig.totalFrames > 1 THEN wts.m_currentConfig.totalFrames ELSE 1)


\* the pose the camera path gives for a frame of a run
PathPose(config, frameIndex) ==
    [path |-> ApplyTestConfiguration([m_cameraPath |-> "UnderwaterSweep"], config).m_cameraPath,
     t |-> Rat(frameIndex, config.totalFrames)]
FramesOnPath(run) ==
    \A i \in 1..Len(run.frameMetrics) :
        run.frameMetrics[i].camera = PathPose(run.config, run.frameMetrics[i].frameIndex)
\* the loop iteration that has just ended appended a frame record
FrameJustRecorded == hist.call = "readGpuTimestamps" /\ hist.recorded = 1

\* C15: every recorded frame went through the steps in order within its own
\* loop iteration: its pose was applied before drawFrame, the command buffer
\* with reset, start and end was submitted and drained, the timer was read
\* and only then the frame was recorded; so every stored frame carries the
\* pose of its path at frameIndex / totalFrames.  (The timer part is stated
\* for a device with a query pool.)
C15_FrameStepsInOrder ==
    /\ FramesOnPath(wts.m_currentResult)
    /\ \A i \in 1..Len(vb.completedTestResults) : FramesOnPath(vb.completedTestResults[i])
    /\ FrameJustRecorded =>
          /\ hist.posed
          /\ hist.poolCreated =>
                hist.submitted /\ hist.sub.reset /\ hist.sub.start /\ hist.sub.end

\* C16: a loop iteration appends a frame record exactly when its drawFrame
\* recorded and submitted a command buffer with the timer writes in it, and
\* never more than one.  (Stated for a device with a query pool, at the end
\* of the iteration.)
C16_RecordIffRendered ==
    (hist.call = "readGpuTimestamps" /\ hist.poolCreated) =>
        /\ hist.recorded <= 1
        /\ hist.recorded = 1 <=>
              (hist.submitted /\ hist.sub.reset /\ hist.sub.start /\ hist.sub.end)


\* position, yaw and pitch agree
SamePose(a, b) == a.position = b.position /\ a.yaw = b.yaw /\ a.pitch = b.pitch
LastKeyframe(keyframes) == keyframes[Len(keyframes)]

\* C17: on a path of two or more keyframes with strictly increasing
\* timestamps in [0, 1], interpolate(0) has the pose of the first keyframe,
\* interpolate(1) the pose of the last, and interpolate(k.timestamp) the
\* pose of k for every keyframe k strictly between them.
C17_KeyframesExact ==
    (cam.called /\ Len(cam.keyframes) >= 2 /\ StrictlyIncreasing(cam.keyframes)) =>
        /\ cam.t = Zero => SamePose(cam.result, cam.keyframes[1])
        /\ cam.t = R(1) => SamePose(cam.result, LastKeyframe(cam.keyframes))
        /\ \A i \in 2..(Len(cam.keyframes) - 1) :
              cam.t = cam.keyframes[i].timestamp => SamePose(cam.result, cam.keyframes[i])


\* C18: appendRunToCSV on a path that did not exist: after any number of
\* calls the file is the title line followed by one data row per call that
\* opened the file, in call order; so no call rewrites, reorders or removes
\* an earlier row.
C18_OneHeaderThenRowsInCallOrder ==
    /\ hist.appended = <<>> => vb.resultsCsv = NoFile
    /\ hist.appended # <<>> =>
          /\ vb.resultsCsv.exists
          /\ Head(vb.resultsCsv.lines) = TitleLine(AppendTitles)
          /\ DataRows(vb.resultsCsv) =
                [i \in 1..Len(hist.appended) |-> AppendRow(hist.appended[i])]
\* run A, then run B
C18_Witness ==
    /\ Len(hist.appended) = 2
    /\ hist.appended[1].config.name = <<"A">> /\ hist.appended[2].config.name # <<"A">>
    /\ Len(vb.resultsCsv.lines) = 3

\* every line from index first on has as many fields as the line before it
\* (the title line)
RowsMatchTitles(file, first) ==
    \A i \in first..Len(file.lines) :
        CsvFieldCount(file.lines[i]) = CsvFieldCount(file.lines[first - 1])

\* C19: in the files of appendRunToCSV, exportSummaryToCSV and exportToCSV
\* every data row has as many CSV fields as the title line has columns,
\* whatever characters the configuration name holds.
C19_RowsHaveTitleFieldCount ==
    /\ RowsMatchTitles(vb.resultsCsv, 2)
    /\ RowsMatchTitles(vb.summaryCsv, 2)
    /\ RowsMatchTitles(vb.reportCsv, 5)

ExportCalls == {"appendRunToCSV", "exportToCSV", "exportRunToCSV", "exportSummaryToCSV"}
Files(v) == <<v.resultsCsv, v.runCsv, v.summaryCsv, v.reportCsv>>

\* C20: an export call that cannot open its file writes a line to std::cerr,
\* leaves every file as it was and changes nothing in memory: the harness
\* and the stored results are as before.
C20_FailedExportLoggedNoOp ==
    [][(hist'.call \in ExportCalls /\ hist'.exports # hist.exports /\ ~hist'.opened) =>
          /\ Len(vb'.cerr) > Len(vb.cerr)
          /\ Files(vb') = Files(vb)
          /\ wts' = wts
          /\ vb'.completedTestResults = vb.completedTestResults]_vars


\* the camera path applyTestConfiguration is to install for a configuration
CameraPathOf(config) == IF config.depth = "Deep" THEN "DepthTransition" ELSE "SurfaceSweep"
\* the harness as a start of (config, runIndex) is to leave it
StartedWith(w, config, runIndex) ==
    /\ w.m_isRunning
    /\ w.m_currentFrameIndex = 0
    /\ w.m_currentResult.frameMetrics = <<>>
    /\ w.m_currentConfig = config /\ w.m_currentResult.config = config
    /\ w.m_currentResult.runIndex = runIndex
    /\ w.m_queryPoolNeedsReset /\ ~w.m_timestampsWritten /\ ~w.m_startTimestampWritten
    /\ w.m_lastGpuTimeMs = Zero
    /\ w.m_cameraPath = CameraPathOf(config)
HostConfigs == {QuickConfig} \cup {PerformanceTestConfigs[i] : i \in 1..Len(PerformanceTestConfigs)}
JustStartedFromUi == hist.call = "drawFrame" /\ hist.click \in {"suite", "quick"}

C21_WitnessRepeat ==
    /\ vb.isTestModeActive /\ wts.m_currentResult.runIndex = 1
    /\ wts.m_currentResult.frameMetrics = <<>> /\ wts.m_currentConfig.depth = "Deep"
    /\ StartedWith(wts, wts.m_currentConfig, 1)

\* the frame times of the records that are not flagged as warm-up, in order
MeasuredTimes(frames) ==
    LET idx == SelectSeq([i \in 1..Len(frames) |-> i], LAMBDA i : ~frames[i].isWarmupFrame)
    IN  [k \in 1..Len(idx) |-> frames[idx[k]].frameTimeMs]
MeanOf(times) == RDiv(RSum(times), R(Len(times)))
SquaredDeviations(times, mean) == RSum([i \in 1..Len(times) |-> RSquare(RSub(times[i], mean))])
\* |times[i] - mean| > 5 * stddev, with stddev^2 = sum of squared deviations
\* over n - 1, and stddev = 0 when n < 2
BeyondFiveSigmaAt(times, mean, i) ==
    LET variance == IF Len(times) < 2 THEN Zero
                    ELSE RDiv(SquaredDeviations(times, mean), R(Len(times) - 1))
    IN  RLt(RMul(R(25), variance), RSquare(RSub(times[i], mean)))
BeyondFiveSigma(times) == {i \in 1..Len(times) : BeyondFiveSigmaAt(times, MeanOf(times), i)}
WithinFiveSigma(times, beyond) ==
    LET idx == SelectSeq([i \in 1..Len(times) |-> i], LAMBDA i : i \notin beyond)
    IN  [k \in 1..Len(idx) |-> times[idx[k]]]
RollupOver(agg, times, beyond, within) ==
    /\ agg.outlierCount = Cardinality(beyond)
    /\ agg.validFrameCount = Len(times) - Cardinality(beyond)
    /\ within # <<>> =>
          /\ agg.meanFrameTime = MeanOf(within)
          /\ \E i \in 1..Len(within) : agg.minFrameTime = within[i]
          /\ \E i \in 1..Len(within) : agg.maxFrameTime = within[i]
          /\ \A i \in 1..Len(within) :
                RLe(agg.minFrameTime, within[i]) /\ RLe(within[i], agg.maxFrameTime)
          /\ RSquare(agg.stddevFrameTime) =
                (IF Len(within) < 2 THEN Zero
                 ELSE RDiv(SquaredDeviations(within, MeanOf(within)), R(Len(within) - 1)))

C22_WitnessKept ==
    /\ hist.call = "endTestRun" /\ Len(Frames) = 28
    /\ Frames[6].frameTimeMs = R(200) /\ Frames[21].frameTimeMs = R(200)
    /\ Agg.outlierCount = 0 /\ Agg.validFrameCount = 27 /\ Agg.maxFrameTime = R(200)

\* a start request made while test mode is active changes nothing
StartIgnoredWhileActive ==
    vb.isTestModeActive =>
        \A config \in HostConfigs :
            StartWaterTest([vb |-> vb, wts |-> wts], config) = [vb |-> vb, wts |-> wts]
\* this step replaces the run buffer by the empty buffer of a new run
RunStarts ==
    /\ wts'.m_isRunning /\ wts'.m_currentResult.frameMetrics = <<>>
    /\ wts'.m_currentResult # wts.m_currentResult
\* this step has ended the run of the unprimed state with endTestRun (after
\* recording its last frame) and stored its result
PreviousRunEnded ==
    /\ Len(vb'.completedTestResults) = Len(vb.completedTestResults) + 1
    /\ LET last == vb'.completedTestResults[Len(vb'.completedTestResults)]
       IN  /\ last.endTime = ClockNow
           /\ last.config = wts.m_currentConfig
           /\ last.runIndex = wts.m_currentResult.runIndex
           /\ Len(last.frameMetrics) = Len(Frames) + 1
           /\ SubSeq(last.frameMetrics, 1, Len(Frames)) = Frames
           /\ last.aggregated = AggregateMetrics(last.frameMetrics, last.config)

\* C23: a request to start a test while test mode is active is ignored
\* (configuration, run index, frame index and buffered frames unchanged), and
\* within a suite a new run starts only in the step that has ended the
\* previous run with endTestRun and stored its result: the one run buffer
\* never holds frames of two runs.
C23_OneRunAtATime ==
    /\ []StartIgnoredWhileActive
    /\ [][(vb.isTestModeActive /\ vb'.isTestModeActive /\ RunStarts) => PreviousRunEnded]_vars

\* C23 witness: the second run of a configuration has started after the first
\* was ended and stored, and a start request in this state would be ignored.
C23_Witness ==
    /\ vb.isTestModeActive /\ wts.m_isRunning
    /\ Len(vb.completedTestResults) = 1
    /\ vb.completedTestResults[1].endTime = ClockNow
    /\ vb.completedTestResults[1].runIndex = 0
    /\ wts.m_currentResult.runIndex = 1 /\ Len(Frames) = 1
    /\ StartWaterTest([vb |-> vb, wts |-> wts], QuickConfig).wts.m_currentResult.frameMetrics = Frames

\* C24: in every state of the GPU timer, whatever calls were made,
\* m_timestampsWritten implies m_startTimestampWritten and
\* m_startTimestampWritten implies that m_queryPoolNeedsReset is clear.
C24_TimerFlagsValid ==
    /\ wts.m_timestampsWritten => wts.m_startTimestampWritten
    /\ wts.m_startTimestampWritten => ~wts.m_queryPoolNeedsReset

\* C24 witness: after a start of a run, an end was asked for without a start
\* in the command buffer and was refused, so no flag is set beyond the reset.
C24_Witness ==
    /\ hist.call = "writeTimestampEnd" /\ wts.m_timestampQueryPool /\ wts.m_isRunning
    /\ ~wts.m_queryPoolNeedsReset /\ ~wts.m_startTimestampWritten /\ ~wts.m_timestampsWritten

\* C24 witness of the full protocol: reset, start and end have all been issued
C24_WitnessWritten ==
    /\ hist.call = "writeTimestampEnd" /\ wts.m_isRunning
    /\ wts.m_timestampsWritten /\ wts.m_startTimestampWritten /\ ~wts.m_queryPoolNeedsReset

\* C25: while a run is active, getCurrentFrameIndex() is the number of records
\* in the run buffer, and the k-th record (k = 0, 1, 2, ...) has frameIndex = k
\* and isWarmupFrame = (k < warmupFrames), whatever was passed as the
\* frameIndex argument of recordFrame.
C25_FramesNumberedByCounter ==
    wts.m_isRunning =>
        /\ wts.m_currentFrameIndex = Len(Frames)
        /\ \A k \in 0..(Len(Frames) - 1) :
              /\ Frames[k + 1].frameIndex = k
              /\ Frames[k + 1].isWarmupFrame <=> (k < wts.m_currentConfig.warmupFrames)

\* C25 witness: the third frame of a run with two warm-up frames was recorded
\* with a frameIndex argument ahead of the counter; it is numbered 2 and is
\* the first frame that is not a warm-up frame.
C25_Witness ==
    /\ wts.m_isRunning /\ hist.call = "recordFrame" /\ hist.frameArg = 9
    /\ wts.m_currentConfig.warmupFrames = 2
    /\ Len(Frames) = 3 /\ wts.m_currentFrameIndex = 3
    /\ Frames[3].frameIndex = 2 /\ ~Frames[3].isWarmupFrame /\ Frames[2].isWarmupFrame

\* C26: a recordFrame call made while no run is active (before the first
\* startTestRun, or after endTestRun) changes nothing: the frame buffer of the
\* last result, the current frame index and the aggregated metrics stay as
\* they were.
C26_LateFrameIgnored ==
    [][(hist'.call = "recordFrame" /\ ~wts.m_isRunning) =>
          /\ wts'.m_currentResult.frameMetrics = Frames
          /\ wts'.m_currentFrameIndex = wts.m_currentFrameIndex
          /\ wts'.m_currentResult.aggregated = Agg
          /\ wts' = wts]_vars

\* C26 witness: recordFrame was called after the ten-frame run was finalized;
\* the result still has its ten frames and its rollup over the eight measured.
C26_Witness ==
    /\ hist.call = "recordFrame" /\ ~hist.prevRunning /\ ~wts.m_isRunning
    /\ wts.m_currentResult.endTime = ClockNow
    /\ Len(Frames) = 10 /\ wts.m_currentFrameIndex = 10 /\ Agg.validFrameCount = 8

\* C26 witness before the first startTestRun
C26_WitnessBeforeFirstRun ==
    hist.call = "recordFrame" /\ wts.m_currentResult = EmptyResult /\ wts.m_currentFrameIndex = 0

\* the number of records of the buffer that are not warm-up frames
MeasuredCount(frames) == Cardinality({i \in 1..Len(frames) : ~frames[i].isWarmupFrame})

\* C27: for every frame buffer that was aggregated, validFrameCount +
\* outlierCount is the number of frames with isWarmupFrame = false, and
\* validFrameCount >= 1 whenever that number is >= 1.
C27_CountsAddUp ==
    hist.call = "endTestRun" =>
        /\ Agg.validFrameCount + Agg.outlierCount = MeasuredCount(Frames)
        /\ MeasuredCount(Frames) >= 1 => Agg.validFrameCount >= 1

\* C27 witness: a run with a warm-up frame and three equal measured frames
\* (standard deviation 0) was aggregated; all three are valid.
C27_Witness ==
    /\ hist.call = "endTestRun" /\ Len(Frames) = 4 /\ Frames[1].isWarmupFrame
    /\ Frames[1].frameTimeMs = R(200)
    /\ \A i \in 2..4 : Frames[i].frameTimeMs = R(16)
    /\ Agg.validFrameCount = 3 /\ Agg.outlierCount = 0 /\ Agg.stddevFrameTime = Zero

\* C27 witness with a rejected frame: 27 measured frames, one of 200 ms
C27_WitnessRejected ==
    /\ hist.call = "endTestRun" /\ MeasuredCount(Frames) = 27
    /\ Agg.validFrameCount = 26 /\ Agg.outlierCount = 1

\* C28: a frame buffer with at most 26 non-warm-up frames is aggregated
\* without rejecting a frame: outlierCount = 0 and validFrameCount is the
\* number of non-warm-up frames.
C28_NoRejectionUpTo26 ==
    (hist.call = "endTestRun" /\ MeasuredCount(Frames) <= 26) =>
        /\ Agg.outlierCount = 0
        /\ Agg.validFrameCount = MeasuredCount(Frames)

\* C28 witness: 26 measured frames of 16 ms except one of 200 ms, which lies
\* 25/sqrt(26) standard deviations from the mean, were aggregated and all kept.
C28_Witness ==
    /\ hist.call = "endTestRun" /\ Len(Frames) = 27 /\ MeasuredCount(Frames) = 26
    /\ Frames[6].frameTimeMs = R(200) /\ Frames[21].frameTimeMs = R(16)
    /\ Agg.outlierCount = 0 /\ Agg.validFrameCount = 26 /\ Agg.maxFrameTime = R(200)

\* C28 witness of a short buffer with one frame far from the others
C28_WitnessShort ==
    /\ hist.call = "endTestRun" /\ Len(Frames) = 4 /\ MeasuredCount(Frames) = 4
    /\ Frames[1].frameTimeMs = R(200) /\ \A i \in 2..4 : Frames[i].frameTimeMs = R(0)
    /\ Agg.outlierCount = 0 /\ Agg.validFrameCount = 4

\* the two keyframes interpolate blends for the argument t, and the weight
\* smoothT it gives to the second
SegmentStart(keyframes, t) == keyframes[SegmentIndex(keyframes, Clamp(t, Zero, R(1)))]
SegmentEnd(keyframes, t) ==
    LET i == SegmentIndex(keyframes, Clamp(t, Zero, R(1)))
    IN  keyframes[IF i + 1 <= Len(keyframes) THEN i + 1 ELSE Len(keyframes)]
EasedWeight(keyframes, t) ==
    SmoothT(SegmentT(SegmentStart(keyframes, t), SegmentEnd(keyframes, t), Clamp(t, Zero, R(1))))
\* x lies between a and b, whichever is larger
Between(x, a, b) == (RLe(a, x) /\ RLe(x, b)) \/ (RLe(b, x) /\ RLe(x, a))
PoseBetween(r, k0, k1) ==
    /\ \A c \in 1..3 : Between(r.position[c], k0.position[c], k1.position[c])
    /\ Between(r.yaw, k0.yaw, k1.yaw)
    /\ Between(r.pitch, k0.pitch, k1.pitch)

\* C29 (as claimed): for a path of at least two keyframes with strictly
\* increasing timestamps in [0,1] and t in [0,1], also below the first
\* keyframe's timestamp or above the last one's, the eased weight is in [0,1]
\* and every component of the returned pose lies between the values of the
\* two keyframes of the chosen segment.
C29_NoExtrapolation ==
    (cam.called /\ Len(cam.keyframes) >= 2 /\ StrictlyIncreasing(cam.keyframes)
         /\ RLe(Zero, cam.t) /\ RLe(cam.t, R(1))) =>
        /\ RLe(Zero, EasedWeight(cam.keyframes, cam.t))
        /\ RLe(EasedWeight(cam.keyframes, cam.t), R(1))
        /\ PoseBetween(cam.result, SegmentStart(cam.keyframes, cam.t),
                       SegmentEnd(cam.keyframes, cam.t))

RECURSIVE RunsAtLeastOnce(_)
\* max(1, repeatCount)
RunsOf(config) == IF config.repeatCount > 1 THEN config.repeatCount ELSE 1
\* the runs (configuration name, run index) of a suite when every
\* configuration is run max(1, repeatCount) times
RunsAtLeastOnce(configs) ==
    IF configs = <<>> THEN <<>>
    ELSE [i \in 1..RunsOf(Head(configs)) |-> [config |-> Head(configs), run |-> i - 1]]
         \o RunsAtLeastOnce(Tail(configs))
RunsCompleted(results) ==
    [i \in 1..Len(results) |-> [config |-> results[i].config, run |-> results[i].runIndex]]

\* C30: every configuration of the queue is run max(1, repeatCount) times, so
\* once also when repeatCount is 0 or negative, before the next one starts:
\* the completed runs are always a prefix of that list and the whole list
\* when the suite is over, and the run index of a started run is in
\* 0 .. max(1, repeatCount) - 1.
C30_EveryConfigRunsAtLeastOnce ==
    /\ Undisturbed =>
          IsPrefix(RunsCompleted(vb.completedTestResults), RunsAtLeastOnce(hist.suite))
    /\ SuiteDone =>
          RunsCompleted(vb.completedTestResults) = RunsAtLeastOnce(hist.suite)
    /\ (vb.isTestModeActive /\ wts.m_isRunning) =>
          wts.m_currentResult.runIndex \in 0..(RunsOf(wts.m_currentConfig) - 1)
    /\ \A i \in 1..Len(vb.completedTestResults) :
          vb.completedTestResults[i].runIndex
              \in 0..(RunsOf(vb.completedTestResults[i].config) - 1)

\* C30 witness: a suite of a configuration with repeatCount 0 followed by one
\* with repeatCount -1 is over; each was run once, with run index 0.
C30_Witness ==
    /\ SuiteDone /\ Len(hist.suite) = 2
    /\ hist.suite[1].repeatCount = 0 /\ hist.suite[2].repeatCount = -1
    /\ hist.suite[1].totalFrames = 2
    /\ Len(vb.completedTestResults) = 2
    /\ \A i \in 1..2 : /\ vb.completedTestResults[i].runIndex = 0
                        /\ vb.completedTestResults[i].config = hist.suite[i]

\* C30 witness of the order: the configuration with repeatCount 0 is done
\* and the second configuration, with repeatCount 2, is in its second run
C30_WitnessAdvanced ==
    /\ vb.isTestModeActive /\ wts.m_isRunning /\ Len(hist.suite) = 2
    /\ hist.suite[1].repeatCount = 0 /\ hist.suite[2].repeatCount = 2
    /\ Len(vb.completedTestResults) = 2
    /\ wts.m_currentConfig = hist.suite[2] /\ wts.m_currentResult.runIndex = 1

=============================================================================
